---- MODULE Spec2Model ----
(***************************************************************************)
(* Episode lifecycle of the podcast monitor: the SQLite store               *)
(* (src/src/database.py) and the orchestrator that drives each episode      *)
(* through download, contextualize, transcribe, summarize, email, complete  *)
(* (src/main.py).                                                           *)
(***************************************************************************)
EXTENDS Integers, Sequences, FiniteSets, TLC

(* ------------------------------ bounds -------------------------------- *)

\* runs of main() in one behaviour
MaxRuns == 2
\* largest value of CURRENT_TIMESTAMP (seconds); the clock never runs backwards
MaxClock == 1
\* rows of processing_events written through direct store calls (StoreSpec)
MaxStoreEvents == 3

\* invocations of run_pipeline.py and main, one after the other
MaxCommands == 3

(* ---------------------- configuration and feeds ----------------------- *)

\* podcasts.yaml: two active podcasts, the first with two recipients
podcasts_config ==
    << [slug |-> "a", active |-> TRUE, emails |-> <<"r1", "r2">>],
       [slug |-> "b", active |-> TRUE, emails |-> <<"r1">>] >>

\* another podcasts.yaml: a podcast with an address listed twice (the
\* validation checks the format of each address only), and a podcast with an
\* empty list of emails (accepted with a warning)
podcasts_config_repeated ==
    << [slug |-> "b", active |-> TRUE, emails |-> <<"r1", "r2", "r1">>],
       [slug |-> "c", active |-> TRUE, emails |-> <<>>] >>

\* the guids a feed returns when its fetch succeeds with episodes; the second
\* and the third feed cross-list an episode of the first
feed_of(slug) ==
    CASE slug = "a" -> <<"g1", "g2">>
      [] slug = "b" -> <<"g2">>
      [] OTHER -> <<"g1">>

Guids == {"g1", "g2"}

\* the fixed status vocabulary of processing_events.status
Statuses ==
    {"downloaded", "contextualized", "transcribed", "summarized",
     "emailed", "completed", "failed"}

\* Python's None for a status
NoStatus == "none"

(* ------------------------------- state -------------------------------- *)

VARIABLES
    podcasts,           \* table podcasts: row id = index, [slug, active]
    episodes,           \* table episodes: row id = index
    processing_events,  \* table processing_events: row id = index
    email_log,          \* table email_log: row id = index
    now,                \* CURRENT_TIMESTAMP of the store
    pc,                 \* position of main()
    run,                \* runs of main() started so far
    active_podcasts,    \* main's local: ids returned by get_active_podcasts
    pidx,               \* position of `for podcast in active_podcasts`
    feed_episodes,      \* process_podcast's local: guids returned by the feed
    eidx,               \* position of `for episode_data in episodes`
    episode_id,         \* process_episode's local
    ridx,               \* position of `for recipient in recipients`
    all_emails_sent,    \* process_episode's local
    has_failures,       \* main's local
    rc,                 \* exit code of the last run (-1 while none finished)
    trace,              \* what the current run did, in order (history)
    ev0,                \* Len(processing_events) when the current run started
    mail0,              \* Len(email_log) when the current run started
    last_call,          \* last direct store call and its outcome (StoreSpec)
    config,             \* podcasts.yaml as loaded by the configuration loader
    workers,            \* overlapping runs: each one's position in process_episode
    download_dir,       \* size in bytes of the file at download_dir / filename
    app_env,            \* config.yaml's system_email and the API keys of .env
    delivered           \* history: the (episode, recipient) pairs of the sends that returned success

vars ==
    << podcasts, episodes, processing_events, email_log, now, pc, run,
       active_podcasts, pidx, feed_episodes, eidx, episode_id, ridx,
       all_emails_sent, has_failures, rc, trace, ev0, mail0, last_call, config,
       workers, download_dir, app_env, delivered >>

dbvars == << podcasts, episodes, processing_events, email_log, now >>
mainvars ==
    << pc, run, active_podcasts, pidx, feed_episodes, eidx, episode_id,
       ridx, all_emails_sent, has_failures, rc, trace, ev0, mail0, last_call,
       config, download_dir, app_env, delivered >>
runvars ==
    << pc, run, active_podcasts, pidx, feed_episodes, eidx, episode_id,
       ridx, all_emails_sent, has_failures, rc, trace, ev0, mail0, config,
       workers, download_dir, app_env, delivered >>

(* ------------------------------ the store ----------------------------- *)

\* values CURRENT_TIMESTAMP may have after time has passed: the clock has a
\* resolution of one second and never runs backwards. The clock is read only
\* to order the events of one episode, and main appends the events of an
\* episode within one call of process_episode: there time passes during the
\* transcription job, and the other statements fall into the second of the
\* statement before them, the case in which the latest event is decided by
\* the row id alone.
Times == {now} \cup (IF now < MaxClock THEN {now + 1} ELSE {})

\* ids of the rows of a table that satisfy nothing in particular: 1..Len
Ids(tbl) == 1..Len(tbl)

\* sync_podcasts, one configured podcast: UPDATE, and INSERT if no row matched
sync_one(tbl, p) ==
    IF \E i \in Ids(tbl) : tbl[i].slug = p.slug
    THEN [i \in Ids(tbl) |->
            IF tbl[i].slug = p.slug
            THEN [tbl[i] EXCEPT !.active = p.active] ELSE tbl[i]]
    ELSE Append(tbl, [slug |-> p.slug, active |-> p.active])

RECURSIVE sync_each(_, _, _)
sync_each(tbl, cfg, k) ==
    IF k > Len(cfg) THEN tbl ELSE sync_each(sync_one(tbl, cfg[k]), cfg, k + 1)

\* (variant: rows whose slug is not configured are deleted)
sync_podcasts_delete_absent(tbl, cfg) ==
    LET synced == sync_each(tbl, cfg, 1)
        slugs == {cfg[k].slug : k \in 1..Len(cfg)}
    IN SelectSeq(synced, LAMBDA row : row.slug \in slugs)

\* Database.sync_podcasts: rows whose slug is not configured become inactive
sync_podcasts(tbl, cfg) ==
    LET synced == sync_each(tbl, cfg, 1)
        slugs == {cfg[k].slug : k \in 1..Len(cfg)}
    IN [i \in Ids(synced) |->
          IF synced[i].slug \in slugs
          THEN synced[i] ELSE [synced[i] EXCEPT !.active = FALSE]]

RECURSIVE active_from(_, _)
active_from(tbl, i) ==
    IF i > Len(tbl) THEN <<>>
    ELSE (IF tbl[i].active THEN <<i>> ELSE <<>>) \o active_from(tbl, i + 1)

\* (variant: SELECT * FROM podcasts)
get_active_podcasts_all(tbl) == [i \in Ids(tbl) |-> i]

\* Database.get_active_podcasts: SELECT * FROM podcasts WHERE active = 1
get_active_podcasts(tbl) == active_from(tbl, 1)

\* Database.get_episode_by_guid: the row id, 0 for None
get_episode_by_guid(tbl, guid) ==
    IF \E i \in Ids(tbl) : tbl[i].episode_guid = guid
    THEN CHOOSE i \in Ids(tbl) : tbl[i].episode_guid = guid
    ELSE 0

\* (variant: the schema without UNIQUE on episode_guid)
insert_episode_no_unique(tbl, pods, podcast_id, guid) ==
    IF podcast_id \notin Ids(pods)
    THEN [out |-> "IntegrityError: FOREIGN KEY", table |-> tbl, id |-> 0]
    ELSE [out |-> "ok",
          table |-> Append(tbl, [podcast_id |-> podcast_id,
                                 episode_guid |-> guid,
                                 context |-> "",
                                 generated_summary |-> ""]),
          id |-> Len(tbl) + 1]

\* Database.insert_episode under the schema's constraints: episode_guid is
\* UNIQUE and podcast_id REFERENCES podcasts(id); a violated constraint raises
\* sqlite3.IntegrityError and the statement changes nothing
insert_episode(tbl, pods, podcast_id, guid) ==
    IF \E i \in Ids(tbl) : tbl[i].episode_guid = guid
    THEN [out |-> "IntegrityError: UNIQUE", table |-> tbl, id |-> 0]
    ELSE IF podcast_id \notin Ids(pods)
    THEN [out |-> "IntegrityError: FOREIGN KEY", table |-> tbl, id |-> 0]
    ELSE [out |-> "ok",
          table |-> Append(tbl, [podcast_id |-> podcast_id,
                                 episode_guid |-> guid,
                                 context |-> "",
                                 generated_summary |-> ""]),
          id |-> Len(tbl) + 1]

\* (variant: the context is not written to the row)
update_episode_context_unsaved(tbl, id, context) == tbl

\* Database.update_episode_context / update_episode_summary
update_episode_context(tbl, id, context) ==
    [i \in Ids(tbl) |-> IF i = id THEN [tbl[i] EXCEPT !.context = context] ELSE tbl[i]]

update_episode_summary(tbl, id, summary) ==
    [i \in Ids(tbl) |->
        IF i = id THEN [tbl[i] EXCEPT !.generated_summary = summary] ELSE tbl[i]]

\* (variant: one status row per episode, updated in place)
add_processing_event_upsert(tbl, id, status, event_data, t) ==
    IF \E i \in Ids(tbl) : tbl[i].episode_id = id
    THEN [i \in Ids(tbl) |->
            IF tbl[i].episode_id = id
            THEN [episode_id |-> id, status |-> status,
                  event_data |-> event_data, created_at |-> t]
            ELSE tbl[i]]
    ELSE Append(tbl, [episode_id |-> id, status |-> status,
                      event_data |-> event_data, created_at |-> t])

\* Database.add_processing_event: INSERT INTO processing_events; created_at
\* defaults to CURRENT_TIMESTAMP (t); event_data is a sequence of <<key, value>>
\* pairs, empty for None
add_processing_event(tbl, id, status, event_data, t) ==
    Append(tbl, [episode_id |-> id, status |-> status,
                 event_data |-> event_data, created_at |-> t])

\* row ids of the events of one episode
events_of(tbl, id) == {i \in Ids(tbl) : tbl[i].episode_id = id}

\* (variant: ORDER BY created_at DESC alone; among equal timestamps the row
\* the index reaches first, the oldest, is returned)
get_latest_processing_event_no_id(tbl, id) ==
    LET es == events_of(tbl, id)
    IN IF es = {} THEN 0
       ELSE CHOOSE i \in es :
               \A j \in es :
                   \/ tbl[i].created_at > tbl[j].created_at
                   \/ tbl[i].created_at = tbl[j].created_at /\ i <= j

\* Database.get_latest_processing_event: ORDER BY created_at DESC, id DESC
\* LIMIT 1; the row id, 0 for None
get_latest_processing_event(tbl, id) ==
    LET es == events_of(tbl, id)
    IN IF es = {} THEN 0
       ELSE CHOOSE i \in es :
               \A j \in es :
                   \/ tbl[i].created_at > tbl[j].created_at
                   \/ tbl[i].created_at = tbl[j].created_at /\ i >= j

\* Database.get_current_status
get_current_status(tbl, id) ==
    LET latest == get_latest_processing_event(tbl, id)
    IN IF latest = 0 THEN NoStatus ELSE tbl[latest].status

\* the row ids in S by ORDER BY created_at DESC, id DESC
RECURSIVE newest_first(_, _)
newest_first(tbl, S) ==
    IF S = {} THEN <<>>
    ELSE LET top == CHOOSE i \in S :
                       \A j \in S :
                           \/ tbl[i].created_at > tbl[j].created_at
                           \/ tbl[i].created_at = tbl[j].created_at /\ i >= j
         IN <<top>> \o newest_first(tbl, S \ {top})

\* Database.get_processing_events: the row ids of an episode's events, with
\* the status filter unless status is None
get_processing_events(tbl, id, status) ==
    newest_first(tbl, {i \in events_of(tbl, id) :
                          status = NoStatus \/ tbl[i].status = status})

\* (variant: the status filter is not applied)
get_event_data_any_status(tbl, id, status) ==
    LET events == get_processing_events(tbl, id, NoStatus)
    IN IF events = <<>> THEN <<>> ELSE tbl[events[1]].event_data

\* Database.get_event_data: event_data of the first row, None (the empty
\* sequence) without rows or for a NULL column
get_event_data(tbl, id, status) ==
    LET events == get_processing_events(tbl, id, status)
    IN IF events = <<>> THEN <<>> ELSE tbl[events[1]].event_data

\* event_data.get(key) on the dict get_event_data returns: "" stands for None
field(event_data, key) ==
    LET ks == {k \in 1..Len(event_data) : event_data[k][1] = key}
    IN IF ks = {} THEN "" ELSE event_data[CHOOSE k \in ks : TRUE][2]

\* (variant: every failed event counts, whatever came after it)
get_failed_episodes_any_failed(events, eps, pods) ==
    LET rows == {i \in Ids(events) : events[i].status = "failed"}
        ordered == newest_first(events, rows)
    IN [k \in 1..Len(ordered) |->
           LET pe == events[ordered[k]] IN
           [podcast_slug |-> pods[eps[pe.episode_id].podcast_id].slug,
            episode_title |-> eps[pe.episode_id].episode_guid,
            audio_path |-> field(pe.event_data, "audio_path"),
            error_message |-> field(pe.event_data, "error_message")]]

\* Database.get_failed_episodes(hours=None): the rows with status failed
\* whose id is the first of their episode's events by created_at DESC, id
\* DESC, joined with their episode and podcast, newest first; audio_path and
\* error_message are read from the event_data of that failed row. The guid
\* stands for the episode's title.
get_failed_episodes(events, eps, pods) ==
    LET rows == {i \in Ids(events) :
                    /\ events[i].status = "failed"
                    /\ i = newest_first(events, events_of(events, events[i].episode_id))[1]
                    /\ events[i].episode_id \in Ids(eps)
                    /\ eps[events[i].episode_id].podcast_id \in Ids(pods)}
        ordered == newest_first(events, rows)
    IN [k \in 1..Len(ordered) |->
           LET pe == events[ordered[k]] IN
           [podcast_slug |-> pods[eps[pe.episode_id].podcast_id].slug,
            episode_title |-> eps[pe.episode_id].episode_guid,
            audio_path |-> field(pe.event_data, "audio_path"),
            error_message |-> field(pe.event_data, "error_message")]]

\* (variant: the ledger is not consulted)
email_already_sent_never(tbl, id, recipient) == FALSE

\* Database.email_already_sent
email_already_sent(tbl, id, recipient) ==
    \E i \in Ids(tbl) : tbl[i].episode_id = id /\ tbl[i].recipient_email = recipient

\* (variant: email_log without the UNIQUE index)
log_email_sent_no_index(tbl, id, recipient) ==
    [out |-> "ok",
     table |-> Append(tbl, [episode_id |-> id, recipient_email |-> recipient])]

\* Database.log_email_sent under the UNIQUE index on (episode_id, recipient_email)
log_email_sent(tbl, id, recipient) ==
    IF email_already_sent(tbl, id, recipient)
    THEN [out |-> "IntegrityError: UNIQUE", table |-> tbl]
    ELSE [out |-> "ok",
          table |-> Append(tbl, [episode_id |-> id, recipient_email |-> recipient])]

(* --------------------------- collaborators ---------------------------- *)

\* download_audio, contextualize_episode and summarize_transcript catch every
\* exception themselves: they return their result or None
StageOutcomes == {"ok", "null"}

\* the transcribe step starts with move_to_processing, whose shutil.move is not
\* guarded and raises; transcribe_audio itself returns a path or None
TranscribeOutcomes == {"ok", "null", "raise"}

\* Emailer.send_summary_email for one recipient: (True, html) or (False, html)
SendOutcomes == {"ok", "fail"}

\* move_to_archive: shutil.move is not guarded
ArchiveOutcomes == {"ok", "raise"}

\* RSSParser.fetch_episodes: raises, returns no episodes, returns episodes
FetchOutcomes == {"raise", "empty", "episodes"}

\* a statement on the store either completes or raises (sqlite3.Error)
DbOutcomes == {"ok", "raise"}

\* settings: max_episode_age_days
max_episode_age_days == 3

\* age in whole days of a feed item at the time of the check; NoAge stands for
\* a published_date that is missing or does not parse
NoAge == -1
Ages == {NoAge, max_episode_age_days, max_episode_age_days + 1}

\* Downloader.download_audio's result path for an episode
audio_path_of(guid) ==
    IF guid = "g1" THEN "data/audio/downloaded/g1.mp3"
    ELSE "data/audio/downloaded/g2.mp3"

(* --------------------------- main(): helpers -------------------------- *)

\* podcast_lookup.get(slug): index into podcasts_config, 0 for None
podcast_lookup(slug) ==
    IF \E k \in 1..Len(config) : config[k].slug = slug
    THEN CHOOSE k \in 1..Len(config) : config[k].slug = slug
    ELSE 0

cur_podcast == active_podcasts[pidx]
cur_slug == podcasts[cur_podcast].slug
cur_config == config[podcast_lookup(cur_slug)]
cur_guid == feed_episodes[eidx]

Entry(op, key, arg, out) == [op |-> op, key |-> key, arg |-> arg, out |-> out]

\* a direct call of the store: operation, guid, row id, outcome
Call(op, guid, id, out) == [op |-> op, guid |-> guid, id |-> id, out |-> out]

\* (variant: only a completed episode is skipped)
already_processed_completed_only(current_status) == current_status = "completed"

\* (variant: only an episode in a terminal status is skipped)
already_processed_failed_or_completed(current_status) ==
    current_status \in {"completed", "failed"}

\* `if current_status:` in process_episode: an episode with any event is skipped
already_processed(current_status) == current_status # NoStatus

\* (variant: an empty result is not checked, only an exception stops the item)
stage_failed_unchecked_result(out) == out = "raise"

\* `if not audio_path / context / transcript_path / summary_path: raise`, and
\* an exception of the step itself
stage_failed(out) == out # "ok"

\* (variant: main's handler leaves the podcast loop)
after_podcast_error_break(i) == Len(active_podcasts) + 1

\* main's `except Exception: has_failures = True; continue`: the loop position
\* after podcast i raised
after_podcast_error(i) == i + 1

\* (variant: the completed event follows the summary directly)
next_step_no_email(step) ==
    CASE step = "download" -> "contextualize"
      [] step = "contextualize" -> "transcribe"
      [] step = "transcribe" -> "summarize"
      [] step = "summarize" -> "complete"
      [] step = "email" -> "complete"
      [] OTHER -> "archive"

\* the order of the steps inside process_episode's try block
next_step(step) ==
    CASE step = "download" -> "contextualize"
      [] step = "contextualize" -> "transcribe"
      [] step = "transcribe" -> "summarize"
      [] step = "summarize" -> "email"
      [] step = "email" -> "complete"
      [] OTHER -> "archive"

\* (variant: the row is written whatever the send returned)
send_succeeded_always(out) == TRUE

\* `if success:` after send_summary_email, the guard of log_email_sent
send_succeeded(out) == out = "ok"

\* (variant: the flag holds the result of the last send)
after_send_last_result(all_sent, out) == out = "ok"

\* `if success: log_email_sent(...) else: all_emails_sent = False`
after_send(all_sent, out) == IF out = "ok" THEN all_sent ELSE FALSE

\* (variant: the recipients are not looked at before processing)
no_recipients_unchecked(podcast_config) == FALSE

\* `if not podcast_config.get('emails')`
no_recipients(podcast_config) == Len(podcast_config.emails) = 0

\* (variant: the table names the stage that produced the status)
failed_stage_map_shifted(current_status) ==
    CASE current_status = NoStatus -> "unknown"
      [] current_status = "downloaded" -> "download"
      [] current_status = "contextualized" -> "contextualize"
      [] current_status = "transcribed" -> "transcribe"
      [] current_status = "summarized" -> "summarize"
      [] OTHER -> "email"

\* failed_stage_map.get(current_status, 'unknown') in the except handler
failed_stage_map(current_status) ==
    CASE current_status = NoStatus -> "download"
      [] current_status = "downloaded" -> "contextualize"
      [] current_status = "contextualized" -> "transcribe"
      [] current_status = "transcribed" -> "summarize"
      [] current_status = "summarized" -> "email"
      [] OTHER -> "unknown"

\* (variant: an episode exactly at the limit is skipped too)
too_old_inclusive(age_days) == age_days # NoAge /\ age_days >= max_episode_age_days

\* the age backstop: `if age_days > max_episode_age_days`, reached only when
\* published_date is present and parses
too_old(age_days) == age_days # NoAge /\ age_days > max_episode_age_days

\* cleanup_failed_episodes: the calls of delete_audio_file it makes, one for
\* each entry of get_failed_episodes that carries an audio_path
cleanup_failed_episodes(failed_episodes) ==
    LET with_path == SelectSeq(failed_episodes, LAMBDA failed : failed.audio_path # "")
    IN [k \in 1..Len(with_path) |->
           Entry("delete_audio_file", with_path[k].episode_title,
                 with_path[k].audio_path, "ok")]

\* process_episode returns normally: process_podcast's loop takes the next
\* episode, and after the last one process_podcast returns to main's loop
ReturnFromEpisode ==
    /\ episode_id' = 0
    /\ ridx' = 0
    /\ all_emails_sent' = TRUE
    /\ IF eidx < Len(feed_episodes)
       THEN /\ pc' = "lookup"
            /\ eidx' = eidx + 1
            /\ UNCHANGED << pidx, feed_episodes >>
       ELSE /\ pc' = "podcast_loop"
            /\ pidx' = pidx + 1
            /\ eidx' = 0
            /\ feed_episodes' = <<>>

\* (variant: process_podcast logs the exception and takes the next episode)
PropagateToMain_swallowed ==
    /\ ReturnFromEpisode
    /\ UNCHANGED has_failures

\* an exception leaves process_episode: process_podcast logs and re-raises it,
\* main's handler sets has_failures and continues with the next podcast
PropagateToMain ==
    /\ episode_id' = 0
    /\ ridx' = 0
    /\ all_emails_sent' = TRUE
    /\ pc' = "podcast_loop"
    /\ pidx' = after_podcast_error(pidx)
    /\ eidx' = 0
    /\ feed_episodes' = <<>>
    /\ has_failures' = TRUE

\* (variant: the except handler re-raises after recording the failure)
HandlerReturn_reraise == PropagateToMain

\* the except handler ends without a raise: process_episode returns normally
HandlerReturn ==
    /\ ReturnFromEpisode
    /\ UNCHANGED has_failures

\* a statement inside process_episode's try block raised (or the code raised
\* after an empty result): control moves to the except handler
RaiseInTry ==
    /\ pc' = "except"
    /\ UNCHANGED << pidx, eidx, feed_episodes, episode_id, ridx, all_emails_sent >>

\* settings: max_audio_file_size_mb, and Downloader.max_file_size_bytes
max_audio_file_size_mb == 500
max_file_size_bytes == max_audio_file_size_mb * 1024 * 1024

\* no file at the path, and a response without a content-length header
NoFile == -1
NoHeader == -1

\* a config.yaml and a .env that pass validation
app_env_valid ==
    [system_email |-> "admin@example.com",
     keys |-> {"ASSEMBLYAI_API_KEY", "RESEND_API_KEY", "OPENAI_API_KEY"}]

\* two processes that run main at the same time, and the locals of
\* process_episode in a process that has not reached it yet
Workers == {"run1", "run2"}
WorkerStart ==
    [pc |-> "start", episode_id |-> 0, ridx |-> 0, all_emails_sent |-> TRUE,
     error |-> ""]

(* ------------------------------- Init --------------------------------- *)

InitState(cfg) ==
    /\ config = cfg
    /\ workers = [w \in Workers |-> WorkerStart]
    /\ download_dir = NoFile
    /\ app_env = app_env_valid
    /\ delivered = <<>>
    /\ podcasts = <<>>
    /\ episodes = <<>>
    /\ processing_events = <<>>
    /\ email_log = <<>>
    /\ now = 0
    /\ pc = "idle"
    /\ run = 0
    /\ active_podcasts = <<>>
    /\ pidx = 0
    /\ feed_episodes = <<>>
    /\ eidx = 0
    /\ episode_id = 0
    /\ ridx = 0
    /\ all_emails_sent = TRUE
    /\ has_failures = FALSE
    /\ rc = -1
    /\ trace = <<>>
    /\ ev0 = 0
    /\ mail0 = 0
    /\ last_call = Call("", "", 0, "")

\* the state after construction, with the first podcasts.yaml
Init == InitState(podcasts_config)

(* ------------------------------- main() ------------------------------- *)

\* main, steps 1-3: load the configuration, setup_and_sync, query the active
\* podcasts. An error of the registry query is not caught inside main: the
\* script exits with code 2.
MainStart ==
    /\ pc = "idle"
    /\ run < MaxRuns
    /\ run' = run + 1
    /\ podcasts' = sync_podcasts(podcasts, config)
    /\ trace' = <<>>
    /\ ev0' = Len(processing_events)
    /\ mail0' = Len(email_log)
    /\ has_failures' = FALSE
    /\ \E out \in DbOutcomes :
         IF out = "ok"
         THEN /\ active_podcasts' = get_active_podcasts(podcasts')
              /\ pc' = "podcast_loop"
              /\ pidx' = 1
              /\ rc' = -1
         ELSE /\ active_podcasts' = <<>>
              /\ pc' = "idle"
              /\ pidx' = 0
              /\ rc' = 2
    /\ UNCHANGED << episodes, processing_events, email_log, now, feed_episodes,
                    eidx, episode_id, ridx, all_emails_sent, last_call, config, workers,
                    download_dir, app_env, delivered >>

\* process_podcast up to its episode loop, with main's try/except around it
ProcessPodcast ==
    /\ pc = "podcast_loop"
    /\ pidx <= Len(active_podcasts)
    /\ \E out \in FetchOutcomes :
         /\ podcast_lookup(cur_slug) = 0 => out = "raise"
         /\ trace' = Append(trace, Entry("process_podcast", cur_slug, "", out))
         /\ CASE out = "raise" ->
                   /\ has_failures' = TRUE
                   /\ pidx' = after_podcast_error(pidx)
                   /\ UNCHANGED << pc, feed_episodes, eidx >>
              [] out = "empty" ->
                   /\ pidx' = pidx + 1
                   /\ UNCHANGED << pc, feed_episodes, eidx, has_failures >>
              [] OTHER ->
                   /\ feed_episodes' = feed_of(cur_slug)
                   /\ eidx' = 1
                   /\ pc' = "lookup"
                   /\ UNCHANGED << pidx, has_failures >>
    /\ UNCHANGED << dbvars, run, active_podcasts, episode_id, ridx,
                    all_emails_sent, rc, ev0, mail0, last_call, config,
                    workers, download_dir, app_env, delivered >>

\* main after the loop: cleanup_failed_episodes, send_error_summary, db.close
\* and the return code. Steps 6 and 7 catch the errors of the file system and
\* of the mail service; their query get_failed_episodes is taken to succeed.
\* The calls of delete_audio_file that step 6 makes are added to the trace.
Finish ==
    /\ pc = "podcast_loop"
    /\ pidx > Len(active_podcasts)
    /\ pc' = "idle"
    /\ rc' = IF has_failures THEN 1 ELSE 0
    /\ trace' = trace \o cleanup_failed_episodes(
                             get_failed_episodes(processing_events, episodes, podcasts))
    /\ UNCHANGED << dbvars, run, active_podcasts, pidx, feed_episodes, eidx,
                    episode_id, ridx, all_emails_sent, has_failures, ev0, mail0,
                    last_call, config, workers, download_dir, app_env, delivered >>

(* -------------------------- process_episode --------------------------- *)

\* identity resolution: get_episode_by_guid, then either the status check of
\* an existing episode or insert_episode. These statements are outside the
\* try block: an error of the store leaves process_episode.
LookupEpisode ==
    /\ pc = "lookup"
    /\ \E db \in DbOutcomes :
         LET found == get_episode_by_guid(episodes, cur_guid)
             ins == insert_episode(episodes, podcasts, cur_podcast, cur_guid)
         IN CASE db = "raise" \/ (found = 0 /\ ins.out # "ok") ->
                   /\ trace' = Append(trace, Entry("lookup", cur_guid, "", "raise"))
                   /\ PropagateToMain
                   /\ UNCHANGED episodes
              [] db = "ok" /\ found # 0
                   /\ already_processed(get_current_status(processing_events, found)) ->
                   /\ trace' = Append(trace, Entry("lookup", cur_guid, "", "skip"))
                   /\ ReturnFromEpisode
                   /\ UNCHANGED << episodes, has_failures >>
              [] db = "ok" /\ found # 0
                   /\ ~already_processed(get_current_status(processing_events, found)) ->
                   /\ trace' = Append(trace, Entry("lookup", cur_guid, "", "exists"))
                   /\ episode_id' = found
                   /\ pc' = "eligibility"
                   /\ UNCHANGED << episodes, has_failures, pidx, eidx,
                                   feed_episodes, ridx, all_emails_sent >>
              [] OTHER ->
                   /\ trace' = Append(trace, Entry("lookup", cur_guid, "", "new"))
                   /\ episodes' = ins.table
                   /\ episode_id' = ins.id
                   /\ pc' = "eligibility"
                   /\ UNCHANGED << has_failures, pidx, eidx, feed_episodes,
                                   ridx, all_emails_sent >>
    /\ UNCHANGED << podcasts, processing_events, email_log, now, run,
                    active_podcasts, rc, ev0, mail0, last_call, config,
                    workers, download_dir, app_env, delivered >>

\* the pre-flight filters: no recipients configured, or older than the limit
CheckEligibility ==
    /\ pc = "eligibility"
    /\ \E age_days \in Ages :
         CASE no_recipients(cur_config) ->
                /\ trace' = Append(trace, Entry("eligibility", cur_guid, "", "no_emails"))
                /\ ReturnFromEpisode
           [] ~no_recipients(cur_config) /\ too_old(age_days) ->
                /\ trace' = Append(trace, Entry("eligibility", cur_guid, "", "too_old"))
                /\ ReturnFromEpisode
           [] OTHER ->
                /\ trace' = Append(trace, Entry("eligibility", cur_guid, "", "eligible"))
                /\ pc' = "download"
                /\ UNCHANGED << pidx, eidx, feed_episodes, episode_id, ridx,
                                all_emails_sent >>
    /\ UNCHANGED << dbvars, run, active_podcasts, has_failures, rc, ev0, mail0,
                    last_call, config, workers, download_dir, app_env, delivered >>

\* Step 4: download_audio, update_episode_file_size, the downloaded event
Download ==
    /\ pc = "download"
    /\ \E out \in StageOutcomes :
         /\ trace' = Append(trace, Entry("download", cur_guid, "", out))
         /\ IF ~stage_failed(out)
            THEN /\ processing_events' =
                            add_processing_event(processing_events, episode_id,
                                "downloaded",
                                << <<"audio_path", audio_path_of(cur_guid)>> >>, now)
                 /\ UNCHANGED now
                 /\ pc' = next_step("download")
                 /\ UNCHANGED << pidx, eidx, feed_episodes, episode_id, ridx,
                                 all_emails_sent >>
            ELSE /\ RaiseInTry
                 /\ UNCHANGED << processing_events, now >>
    /\ UNCHANGED << podcasts, episodes, email_log, run, active_podcasts,
                    has_failures, rc, ev0, mail0, last_call, config,
                    workers, download_dir, app_env, delivered >>

\* Step 4.5: contextualize_episode, update_episode_context, the event
Contextualize ==
    /\ pc = "contextualize"
    /\ \E out \in StageOutcomes :
         /\ trace' = Append(trace, Entry("contextualize", cur_guid, "", out))
         /\ IF ~stage_failed(out)
            THEN /\ episodes' = update_episode_context(episodes, episode_id, "context")
                 /\ processing_events' =
                            add_processing_event(processing_events, episode_id,
                                "contextualized", <<>>, now)
                 /\ UNCHANGED now
                 /\ pc' = next_step("contextualize")
                 /\ UNCHANGED << pidx, eidx, feed_episodes, episode_id, ridx,
                                 all_emails_sent >>
            ELSE /\ RaiseInTry
                 /\ UNCHANGED << episodes, processing_events, now >>
    /\ UNCHANGED << podcasts, email_log, run, active_podcasts, has_failures,
                    rc, ev0, mail0, last_call, config, workers, download_dir, app_env, delivered >>

\* Step 5: move_to_processing (raises if the file is gone), transcribe_audio
\* (the long-running job, during which the clock may advance), the
\* transcribed event
Transcribe ==
    /\ pc = "transcribe"
    /\ \E out \in TranscribeOutcomes, t \in Times :
         /\ trace' = Append(trace, Entry("transcribe", cur_guid, "", out))
         /\ now' = t
         /\ IF ~stage_failed(out)
            THEN /\ processing_events' =
                       add_processing_event(processing_events, episode_id,
                           "transcribed",
                           << <<"transcript_path", "transcript">> >>, t)
                 /\ pc' = next_step("transcribe")
                 /\ UNCHANGED << pidx, eidx, feed_episodes, episode_id, ridx,
                                 all_emails_sent >>
            ELSE /\ RaiseInTry
                 /\ UNCHANGED processing_events
    /\ UNCHANGED << podcasts, episodes, email_log, run, active_podcasts,
                    has_failures, rc, ev0, mail0, last_call, config,
                    workers, download_dir, app_env, delivered >>

\* summarize_transcript, update_episode_summary, the summarized event
Summarize ==
    /\ pc = "summarize"
    /\ \E out \in StageOutcomes :
         /\ trace' = Append(trace, Entry("summarize", cur_guid, "", out))
         /\ IF ~stage_failed(out)
            THEN /\ episodes' = update_episode_summary(episodes, episode_id, "summary")
                 /\ processing_events' =
                            add_processing_event(processing_events, episode_id,
                                "summarized",
                                << <<"summary_path", "summary">> >>, now)
                 /\ UNCHANGED now
                 /\ pc' = next_step("summarize")
                 /\ ridx' = 1
                 /\ all_emails_sent' = TRUE
                 /\ UNCHANGED << pidx, eidx, feed_episodes, episode_id >>
            ELSE /\ RaiseInTry
                 /\ UNCHANGED << episodes, processing_events, now >>
    /\ UNCHANGED << podcasts, email_log, run, active_podcasts, has_failures,
                    rc, ev0, mail0, last_call, config, workers, download_dir, app_env, delivered >>

\* one pass of `for recipient in recipients`: skip a recipient with a row in
\* email_log, otherwise send and, on success, log_email_sent
SendEmail ==
    /\ pc = "email"
    /\ ridx <= Len(cur_config.emails)
    /\ LET recipient == cur_config.emails[ridx] IN
         IF email_already_sent(email_log, episode_id, recipient)
         THEN /\ trace' = Append(trace, Entry("email_already_sent", cur_guid, recipient, "skip"))
              /\ ridx' = ridx + 1
              /\ UNCHANGED << email_log, pc, all_emails_sent, delivered >>
         ELSE \E out \in SendOutcomes :
                /\ trace' = Append(trace, Entry("send", cur_guid, recipient, out))
                /\ email_log' = IF send_succeeded(out)
                                 THEN log_email_sent(email_log, episode_id, recipient).table
                                 ELSE email_log
                /\ delivered' = IF out = "ok"
                                 THEN Append(delivered, << episode_id, recipient >>)
                                 ELSE delivered
                /\ all_emails_sent' = after_send(all_emails_sent, out)
                /\ ridx' = ridx + 1
                /\ UNCHANGED pc
    /\ UNCHANGED << podcasts, episodes, processing_events, now, run,
                    active_podcasts, pidx, feed_episodes, eidx, episode_id,
                    has_failures, rc, ev0, mail0, last_call, config,
                    workers, download_dir, app_env >>

\* after the recipient loop: raise unless every send succeeded, else the
\* emailed event
FinishEmail ==
    /\ pc = "email"
    /\ ridx > Len(cur_config.emails)
    /\ IF ~all_emails_sent
       THEN /\ trace' = Append(trace, Entry("emailed", cur_guid, "", "raise"))
            /\ RaiseInTry
            /\ UNCHANGED << processing_events, now >>
       ELSE /\ trace' = Append(trace, Entry("emailed", cur_guid, "", "ok"))
            /\ processing_events' =
                       add_processing_event(processing_events, episode_id,
                           "emailed", << <<"recipients", cur_slug>> >>, now)
            /\ UNCHANGED now
            /\ pc' = next_step("email")
            /\ UNCHANGED << pidx, eidx, feed_episodes, episode_id, ridx,
                            all_emails_sent >>
    /\ UNCHANGED << podcasts, episodes, email_log, run, active_podcasts,
                    has_failures, rc, ev0, mail0, last_call, config,
                    workers, download_dir, app_env, delivered >>

\* Mark as completed
Complete ==
    /\ pc = "complete"
    /\ trace' = Append(trace, Entry("completed", cur_guid, "", "ok"))
    /\ processing_events' =
               add_processing_event(processing_events, episode_id, "completed", <<>>, now)
    /\ UNCHANGED now
    /\ pc' = next_step("complete")
    /\ UNCHANGED << podcasts, episodes, email_log, run, active_podcasts, pidx,
                    feed_episodes, eidx, episode_id, ridx, all_emails_sent,
                    has_failures, rc, ev0, mail0, last_call, config,
                    workers, download_dir, app_env, delivered >>

\* Move to archive: shutil.move may raise, still inside the try block
MoveToArchive ==
    /\ pc = "archive"
    /\ \E out \in ArchiveOutcomes :
         /\ trace' = Append(trace, Entry("archive", cur_guid, "", out))
         /\ IF ~stage_failed(out) THEN ReturnFromEpisode ELSE RaiseInTry
    /\ UNCHANGED << dbvars, run, active_podcasts, has_failures, rc, ev0, mail0,
                    last_call, config, workers, download_dir, app_env, delivered >>

\* the except handler: get_current_status, failed_stage_map, the failed event.
\* The handler's own statements are not guarded: if the store raises here the
\* exception leaves process_episode.
HandleFailure ==
    /\ pc = "except"
    /\ \E db \in DbOutcomes :
         IF db = "ok"
         THEN /\ trace' = Append(trace, Entry("handler", cur_guid, "", "ok"))
              /\ processing_events' =
                         add_processing_event(processing_events, episode_id, "failed",
                             << <<"error_message", trace[Len(trace)].op>>,
                                <<"failed_stage",
                                  failed_stage_map(
                                      get_current_status(processing_events, episode_id))>> >>, now)
              /\ UNCHANGED now
              /\ HandlerReturn
         ELSE /\ trace' = Append(trace, Entry("handler", cur_guid, "", "raise"))
              /\ PropagateToMain
              /\ UNCHANGED << processing_events, now >>
    /\ UNCHANGED << podcasts, episodes, email_log, run, active_podcasts, rc,
                    ev0, mail0, last_call, config, workers, download_dir, app_env, delivered >>

(* ------------------------------ the run ------------------------------- *)

Next ==
    \/ MainStart
    \/ ProcessPodcast
    \/ LookupEpisode
    \/ CheckEligibility
    \/ Download
    \/ Contextualize
    \/ Transcribe
    \/ Summarize
    \/ SendEmail
    \/ FinishEmail
    \/ Complete
    \/ MoveToArchive
    \/ HandleFailure
    \/ Finish

Spec == Init /\ [][Next]_vars

\* the same runs of main with the second podcasts.yaml
RepeatedSpec == InitState(podcasts_config_repeated) /\ [][Next]_vars

(* ------------------------- a run that is cut short -------------------- *)

\* the steps of process_episode that invoke a collaborator before they
\* append their event
StageSteps == {"download", "contextualize", "transcribe", "summarize"}

\* The process is killed while main runs (cron's timeout, a reboot, SIGKILL).
\* Nothing of the process survives; the database keeps every committed
\* statement. The kill falls either between two steps or inside a stage,
\* after the collaborator was invoked and before the stage's event was
\* committed; in contextualize and summarize that may be after the commit of
\* update_episode_context / update_episode_summary. The next start of main
\* is a new process.
Crash ==
    /\ pc # "idle"
    /\ \E inside \in {"between", "in_call", "after_write"} :
         /\ trace' = IF inside # "between" /\ pc \in StageSteps
                      THEN Append(trace, Entry(pc, cur_guid, "", "killed"))
                      ELSE trace
         /\ episodes' =
                CASE inside = "after_write" /\ pc = "contextualize" ->
                         update_episode_context(episodes, episode_id, "context")
                  [] inside = "after_write" /\ pc = "summarize" ->
                         update_episode_summary(episodes, episode_id, "summary")
                  [] OTHER -> episodes
    /\ pc' = "idle"
    /\ rc' = -1
    /\ active_podcasts' = <<>>
    /\ pidx' = 0
    /\ feed_episodes' = <<>>
    /\ eidx' = 0
    /\ episode_id' = 0
    /\ ridx' = 0
    /\ all_emails_sent' = TRUE
    /\ has_failures' = FALSE
    /\ UNCHANGED << podcasts, processing_events, email_log, now, run, ev0,
                    mail0, last_call, config, workers, download_dir, app_env,
                    delivered >>

\* runs of main, any of which may be cut short
CrashSpec == InitState(podcasts_config_repeated) /\ [][Next \/ Crash]_vars

(* ---------------- podcasts.yaml edited between the runs --------------- *)

\* the second podcasts.yaml and two edits of it: podcast b switched off, and
\* podcast b removed
podcasts_config_b_inactive ==
    [k \in 1..Len(podcasts_config_repeated) |->
        IF podcasts_config_repeated[k].slug = "b"
        THEN [podcasts_config_repeated[k] EXCEPT !.active = FALSE]
        ELSE podcasts_config_repeated[k]]
podcasts_config_b_removed ==
    SelectSeq(podcasts_config_repeated, LAMBDA p : p.slug # "b")
EditedConfigs ==
    {podcasts_config_repeated, podcasts_config_b_inactive, podcasts_config_b_removed}

\* the operator edits podcasts.yaml while main is not running; the next run
\* loads the file
EditConfig ==
    /\ pc = "idle"
    /\ config' \in EditedConfigs \ {config}
    /\ UNCHANGED << dbvars, pc, run, active_podcasts, pidx, feed_episodes, eidx,
                    episode_id, ridx, all_emails_sent, has_failures, rc, trace,
                    ev0, mail0, last_call, workers, download_dir, app_env, delivered >>

EditSpec == InitState(podcasts_config_repeated) /\ [][Next \/ EditConfig]_vars

(* ----------------------- runs of main that overlap -------------------- *)

\* Nothing keeps a second process from starting main while another one runs
\* (no lock file, one sqlite3 connection per process, a commit after every
\* statement): the statements of the processes interleave. Each process is
\* followed through process_episode for the episode of the last configured
\* podcast, taken to pass the pre-flight filters. When process_episode
\* returns, its locals are gone.
overlap_podcast == Len(podcasts_config)
overlap_slug == podcasts_config[overlap_podcast].slug
overlap_guid == feed_of(overlap_slug)[1]
overlap_recipients == podcasts_config[overlap_podcast].emails
WorkerReturned == [WorkerStart EXCEPT !.pc = "done"]

\* the event a stage appends, with its event_data
stage_status(step) ==
    CASE step = "download" -> "downloaded"
      [] step = "contextualize" -> "contextualized"
      [] step = "transcribe" -> "transcribed"
      [] OTHER -> "summarized"
stage_event_data(step) ==
    CASE step = "download" -> << <<"audio_path", audio_path_of(overlap_guid)>> >>
      [] step = "contextualize" -> <<>>
      [] step = "transcribe" -> << <<"transcript_path", "transcript">> >>
      [] OTHER -> << <<"summary_path", "summary">> >>

\* one process moves; the others stay where they are
Move(w, rec) == workers' = [workers EXCEPT ![w] = rec]

\* main, steps 1-3, and process_podcast up to the episode
WStart(w) ==
    /\ workers[w].pc = "start"
    /\ podcasts' = sync_podcasts(podcasts, config)
    /\ Move(w, [workers[w] EXCEPT !.pc = "lookup"])
    /\ UNCHANGED << episodes, processing_events, email_log, now, mainvars >>

\* get_episode_by_guid and, for an existing episode, the status check
WLookup(w) ==
    /\ workers[w].pc = "lookup"
    /\ LET found == get_episode_by_guid(episodes, overlap_guid) IN
         IF found = 0
         THEN Move(w, [workers[w] EXCEPT !.pc = "insert"])
         ELSE IF already_processed(get_current_status(processing_events, found))
         THEN Move(w, WorkerReturned)
         ELSE Move(w, [workers[w] EXCEPT !.pc = "download", !.episode_id = found])
    /\ UNCHANGED << dbvars, mainvars >>

\* insert_episode, outside the try block: sqlite3.IntegrityError leaves
\* process_episode
WInsert(w) ==
    /\ workers[w].pc = "insert"
    /\ LET ins == insert_episode(episodes, podcasts,
                                 get_active_podcasts(podcasts)[overlap_podcast],
                                 overlap_guid)
       IN /\ episodes' = ins.table
          /\ IF ins.out = "ok"
             THEN Move(w, [workers[w] EXCEPT !.pc = "download", !.episode_id = ins.id])
             ELSE Move(w, [workers[w] EXCEPT !.pc = "raised", !.error = ins.out])
    /\ UNCHANGED << podcasts, processing_events, email_log, now, mainvars >>

\* the stages download, contextualize, transcribe and summarize
WStage(w) ==
    /\ workers[w].pc \in StageSteps
    /\ LET step == workers[w].pc
           id == workers[w].episode_id
       IN \E out \in StageOutcomes :
            IF ~stage_failed(out)
            THEN /\ episodes' =
                       CASE step = "contextualize" ->
                                update_episode_context(episodes, id, "context")
                         [] step = "summarize" ->
                                update_episode_summary(episodes, id, "summary")
                         [] OTHER -> episodes
                 /\ processing_events' =
                       add_processing_event(processing_events, id,
                           stage_status(step), stage_event_data(step), now)
                 /\ Move(w, [workers[w] EXCEPT
                                !.pc = next_step(step),
                                !.ridx = IF step = "summarize" THEN 1 ELSE @])
            ELSE /\ Move(w, [workers[w] EXCEPT !.pc = "except", !.error = step])
                 /\ UNCHANGED << episodes, processing_events >>
    /\ UNCHANGED << podcasts, email_log, now, mainvars >>

\* `if db.email_already_sent(episode_id, recipient): continue`
WCheckSent(w) ==
    /\ workers[w].pc = "email"
    /\ workers[w].ridx <= Len(overlap_recipients)
    /\ IF email_already_sent(email_log, workers[w].episode_id,
                             overlap_recipients[workers[w].ridx])
       THEN Move(w, [workers[w] EXCEPT !.ridx = @ + 1])
       ELSE Move(w, [workers[w] EXCEPT !.pc = "send"])
    /\ UNCHANGED << dbvars, mainvars >>

\* send_summary_email and, on success, log_email_sent: a row the UNIQUE index
\* rejects raises sqlite3.IntegrityError inside the try block
WSend(w) ==
    /\ workers[w].pc = "send"
    /\ \E out \in SendOutcomes :
         LET logged == log_email_sent(email_log, workers[w].episode_id,
                                      overlap_recipients[workers[w].ridx])
         IN CASE out = "ok" /\ logged.out = "ok" ->
                   /\ email_log' = logged.table
                   /\ Move(w, [workers[w] EXCEPT !.pc = "email", !.ridx = @ + 1])
              [] out = "ok" /\ logged.out # "ok" ->
                   /\ email_log' = logged.table
                   /\ Move(w, [workers[w] EXCEPT !.pc = "except", !.error = logged.out])
              [] OTHER ->
                   /\ UNCHANGED email_log
                   /\ Move(w, [workers[w] EXCEPT
                                  !.pc = "email", !.ridx = @ + 1,
                                  !.all_emails_sent = after_send(@, out)])
    /\ UNCHANGED << podcasts, episodes, processing_events, now, mainvars >>

\* after the recipient loop: raise unless every send succeeded, else the
\* emailed event
WFinishEmail(w) ==
    /\ workers[w].pc = "email"
    /\ workers[w].ridx > Len(overlap_recipients)
    /\ IF ~workers[w].all_emails_sent
       THEN /\ Move(w, [workers[w] EXCEPT !.pc = "except", !.error = "email"])
            /\ UNCHANGED processing_events
       ELSE /\ processing_events' =
                  add_processing_event(processing_events, workers[w].episode_id,
                      "emailed", << <<"recipients", overlap_slug>> >>, now)
            /\ Move(w, [workers[w] EXCEPT !.pc = next_step("email")])
    /\ UNCHANGED << podcasts, episodes, email_log, now, mainvars >>

\* the completed event, then move_to_archive
WComplete(w) ==
    /\ workers[w].pc = "complete"
    /\ processing_events' =
          add_processing_event(processing_events, workers[w].episode_id,
              "completed", <<>>, now)
    /\ \E out \in ArchiveOutcomes :
         IF ~stage_failed(out)
         THEN Move(w, WorkerReturned)
         ELSE Move(w, [workers[w] EXCEPT !.pc = "except", !.error = "archive"])
    /\ UNCHANGED << podcasts, episodes, email_log, now, mainvars >>

\* the except handler of process_episode
WHandleFailure(w) ==
    /\ workers[w].pc = "except"
    /\ processing_events' =
          add_processing_event(processing_events, workers[w].episode_id, "failed",
              << <<"error_message", workers[w].error>>,
                 <<"failed_stage",
                   failed_stage_map(
                       get_current_status(processing_events, workers[w].episode_id))>> >>,
              now)
    /\ Move(w, WorkerReturned)
    /\ UNCHANGED << podcasts, episodes, email_log, now, mainvars >>

WorkersNext ==
    \E w \in Workers :
        \/ WStart(w)
        \/ WLookup(w)
        \/ WInsert(w)
        \/ WStage(w)
        \/ WCheckSent(w)
        \/ WSend(w)
        \/ WFinishEmail(w)
        \/ WComplete(w)
        \/ WHandleFailure(w)

WorkersSpec == Init /\ [][WorkersNext]_vars

(* -------------------------- download_audio alone ---------------------- *)

\* sizes in bytes of the audio behind a URL, around the ceiling
AudioSizes ==
    {0, 1, 8192, 8193, max_file_size_bytes - 1, max_file_size_bytes,
     max_file_size_bytes + 1, 2 * max_file_size_bytes}

\* how the request goes: the server answers with an error status or the
\* connection fails (requests raises before the body is read), the connection
\* breaks while the body is streamed, writing the file raises OSError, or the
\* body arrives whole
FetchResults == {"http_error", "broken", "disk", "ok"}

DownloadCall(fetch, content_length, body, out) ==
    [op |-> "download_audio", guid |-> "", id |-> body, out |-> out,
     fetch |-> fetch, content_length |-> content_length]

\* Downloader.download_audio(audio_url, filename) for one filename: the size
\* is checked against the content-length header only, before the body is
\* read; open(filepath, 'wb') replaces a file left by an earlier call; both
\* except clauses unlink the file at filepath
DownloadAudio ==
    /\ \E fetch \in FetchResults, body \in AudioSizes :
       \E content_length \in {NoHeader, body} :
         CASE fetch = "http_error" ->
                /\ download_dir' = NoFile
                /\ last_call' = DownloadCall(fetch, content_length, body, "None")
           [] fetch # "http_error" /\ content_length # NoHeader
                                   /\ content_length > max_file_size_bytes ->
                /\ UNCHANGED download_dir
                /\ last_call' = DownloadCall(fetch, content_length, body, "None")
           [] fetch \in {"broken", "disk"}
                 /\ ~(content_length # NoHeader /\ content_length > max_file_size_bytes) ->
                /\ download_dir' = NoFile
                /\ last_call' = DownloadCall(fetch, content_length, body, "None")
           [] OTHER ->
                /\ download_dir' = body
                /\ last_call' = DownloadCall(fetch, content_length, body, "path")
    /\ UNCHANGED << dbvars, pc, run, active_podcasts, pidx, feed_episodes, eidx,
                    episode_id, ridx, all_emails_sent, has_failures, rc, trace,
                    ev0, mail0, config, workers, app_env, delivered >>

DownloadSpec == Init /\ [][DownloadAudio]_vars

(* ------------------------- the age backstop alone --------------------- *)

\* published_date values a feed item can carry: None, the empty string, a
\* string that is no ISO date, and ISO dates with and without an offset
PublishedDates ==
    {"None", "", "yesterday", "2024-01-01T00:00:00Z", "2024-01-01T12:00:00",
     "2024-01-02T06:00:00-05:00", "2024-01-09T00:00:00+00:00"}

\* datetime.now() of the machine, in hours since 2024-01-01T00:00 local time
AgeNows == 90..130

\* datetime.fromisoformat(s.replace('Z', '+00:00')).replace(tzinfo=None) in
\* hours since 2024-01-01T00:00: the offset is dropped, not converted. NoDate
\* stands for ValueError.
NoDate == -100000
fromisoformat(published_date_str) ==
    CASE published_date_str = "2024-01-01T00:00:00Z" -> 0
      [] published_date_str = "2024-01-01T12:00:00" -> 12
      [] published_date_str = "2024-01-02T06:00:00-05:00" -> 30
      [] published_date_str = "2024-01-09T00:00:00+00:00" -> 192
      [] OTHER -> NoDate

\* `if published_date_str:` and `(now - published_date).days`: timedelta.days
\* rounds towards minus infinity
episode_age_days(published_date_str, now_hours) ==
    IF published_date_str \in {"None", ""}
       \/ fromisoformat(published_date_str) = NoDate
    THEN NoAge
    ELSE (now_hours - fromisoformat(published_date_str)) \div 24

\* the age check of process_episode on one item at one time of day
AgeCheck ==
    /\ \E published_date_str \in PublishedDates, now_hours \in AgeNows :
         last_call' = Call("age_check", published_date_str, now_hours,
                           IF too_old(episode_age_days(published_date_str, now_hours))
                           THEN "skip" ELSE "proceed")
    /\ UNCHANGED << dbvars, runvars >>

AgeSpec == Init /\ [][AgeCheck]_vars

(* ---------------- the store driven directly (as the tests do) --------- *)

\* statuses and podcast ids handed to the store directly; the last id has no
\* row in podcasts
StoreStatuses == {"downloaded", "contextualized", "completed", "failed"}
StorePodcastIds == {1, Len(podcasts_config) + 1}
StoreEpisodeIds == 1..Cardinality(Guids)

\* db.sync_podcasts(config)
StoreSync ==
    /\ podcasts' = sync_podcasts(podcasts, podcasts_config)
    /\ last_call' = Call("sync_podcasts", "", 0, "ok")
    /\ UNCHANGED << episodes, processing_events, email_log, now, runvars >>

\* db.insert_episode(podcast_id, episode_data)
StoreInsertEpisode ==
    \E podcast_id \in StorePodcastIds, guid \in Guids :
        LET ins == insert_episode(episodes, podcasts, podcast_id, guid) IN
        /\ episodes' = ins.table
        /\ last_call' = Call("insert_episode", guid, ins.id, ins.out)
        /\ UNCHANGED << podcasts, processing_events, email_log, now, runvars >>

\* db.add_processing_event(episode_id, status) at some later time; episode_id
\* REFERENCES episodes(id)
StoreAddEvent ==
    /\ Len(processing_events) < MaxStoreEvents
    /\ \E id \in StoreEpisodeIds, status \in StoreStatuses, t \in Times :
         /\ now' = t
         /\ IF id \in Ids(episodes)
            THEN /\ processing_events' =
                       add_processing_event(processing_events, id, status, <<>>, t)
                 /\ last_call' = Call("add_processing_event", "", id, "ok")
            ELSE /\ UNCHANGED processing_events
                 /\ last_call' = Call("add_processing_event", "", id,
                                      "IntegrityError: FOREIGN KEY")
    /\ UNCHANGED << podcasts, episodes, email_log, runvars >>

StoreNext ==
    \/ StoreSync
    \/ StoreInsertEpisode
    \/ StoreAddEvent

StoreSpec == Init /\ [][StoreNext]_vars

(* --------------------- events with their event_data ------------------- *)

\* payloads handed to add_processing_event: dicts with one path. json.dumps
\* and json.loads map a dict of strings to itself.
EventPayloads ==
    { << <<"audio_path", "/a/b.mp3">> >>, << <<"audio_path", "/c/d.mp3">> >> }
EventDataStatuses == {"downloaded", "failed"}

\* db.add_processing_event(episode_id, status, event_data=payload)
StoreAddEventData ==
    /\ Len(processing_events) < MaxStoreEvents
    /\ \E id \in Ids(episodes), status \in EventDataStatuses,
          payload \in EventPayloads, t \in Times :
         /\ now' = t
         /\ processing_events' =
                add_processing_event(processing_events, id, status, payload, t)
         /\ last_call' = Call("add_processing_event", "", id, "ok")
    /\ UNCHANGED << podcasts, episodes, email_log, runvars >>

EventDataNext ==
    \/ StoreSync
    \/ StoreInsertEpisode
    \/ StoreAddEventData

EventDataSpec == Init /\ [][EventDataNext]_vars

(* ------------------- outcomes recorded and queried -------------------- *)

\* as the tests of the error handling do: an episode is given a completed
\* event, or a failed event with its error_message and failed_stage
StoreAddOutcome ==
    /\ Len(processing_events) < MaxStoreEvents
    /\ \E id \in Ids(episodes), t \in Times,
          event_data \in { <<>>,
                           << <<"error_message", "Transcription API error">>,
                              <<"failed_stage", "transcribe">> >>,
                           << <<"error_message", "Failed to download audio">>,
                              <<"failed_stage", "download">> >> } :
         /\ now' = t
         /\ processing_events' =
                add_processing_event(processing_events, id,
                    IF event_data = <<>> THEN "completed" ELSE "failed",
                    event_data, t)
         /\ last_call' = Call("add_processing_event", "", id, "ok")
    /\ UNCHANGED << podcasts, episodes, email_log, runvars >>

OutcomeSpec == Init /\ [][StoreSync \/ StoreInsertEpisode \/ StoreAddOutcome]_vars

(* ------------------ sync_podcasts with changing files ----------------- *)

\* the podcasts.yaml files that pass _validate_podcasts over the slugs a, b
\* and c: at least one podcast, every slug once, active a boolean
SyncSlugs == {"a", "b", "c"}
SyncEntries == [slug : SyncSlugs, active : BOOLEAN, emails : {<<>>}]
SyncConfigs ==
    {cfg \in UNION {[1..n -> SyncEntries] : n \in 1..Cardinality(SyncSlugs)} :
        \A j, k \in 1..Len(cfg) : cfg[j].slug = cfg[k].slug => j = k}

\* the file is edited and db.sync_podcasts is called with what it holds
StoreSyncConfig ==
    /\ \E cfg \in SyncConfigs :
         /\ config' = cfg
         /\ podcasts' = sync_podcasts(podcasts, cfg)
    /\ last_call' = Call("sync_podcasts", "", 0, "ok")
    /\ UNCHANGED << episodes, processing_events, email_log, now, pc, run,
                    active_podcasts, pidx, feed_episodes, eidx, episode_id,
                    ridx, all_emails_sent, has_failures, rc, trace, ev0, mail0,
                    workers, download_dir, app_env, delivered >>

SyncSpec == Init /\ [][StoreSyncConfig]_vars

(* ------------------ main() behind the validation of its files --------- *)

\* _is_valid_email, on the addresses the files of this section hold: the
\* pattern wants a local part, an @, a domain, a dot and two letters or more.
\* r1 and r2 stand for two well-formed recipient addresses.
is_valid_email(email) ==
    CASE email = "r1" -> TRUE
      [] email = "r2" -> TRUE
      [] email = "admin@example.com" -> TRUE
      [] email = "not-an-email" -> FALSE
      [] email = "admin@example" -> FALSE
      [] OTHER -> FALSE

\* rss_url.startswith(('http://', 'https://')), on the urls of this section
is_http_url(url) ==
    CASE url = "https://example.com/b.xml" -> TRUE
      [] url = "https://example.com/c.xml" -> TRUE
      [] OTHER -> FALSE

\* _validate_podcasts, the body of its loop for the entry at position i: the
\* required fields, 'active', the slug not seen at an earlier position, the
\* url, and the format of each address
valid_podcast(cfg, i) ==
    LET podcast == cfg[i] IN
    /\ "name" \in DOMAIN podcast /\ podcast.name # ""
    /\ "slug" \in DOMAIN podcast /\ podcast.slug # ""
    /\ "rss_url" \in DOMAIN podcast /\ podcast.rss_url # ""
    /\ "active" \in DOMAIN podcast
    /\ podcast.active \in BOOLEAN
    /\ \A k \in 1..(i - 1) : cfg[k].slug # podcast.slug
    /\ is_http_url(podcast.rss_url)
    /\ "emails" \in DOMAIN podcast =>
          \A k \in 1..Len(podcast.emails) : is_valid_email(podcast.emails[k])

\* _validate_podcasts: TRUE when it raises no ConfigError
validate_podcasts(cfg) ==
    /\ Len(cfg) > 0
    /\ \A i \in 1..Len(cfg) : valid_podcast(cfg, i)

\* _validate_app_config: system_email. The sections and the prompts of
\* config.yaml are present and the numeric settings are left at their
\* defaults in every file of this section.
validate_app_config(env) ==
    /\ env.system_email # ""
    /\ is_valid_email(env.system_email)

\* _validate_env_vars: both required keys, and one key of a language model
validate_env_vars(env) ==
    /\ "ASSEMBLYAI_API_KEY" \in env.keys
    /\ "RESEND_API_KEY" \in env.keys
    /\ \E key \in {"OPENAI_API_KEY", "GEMINI_API_KEY"} : key \in env.keys

\* (variant: the files are loaded and not validated)
load_all_unchecked(cfg, env) == TRUE

\* load_all: False when _validate_all raises ConfigError
load_all(cfg, env) ==
    /\ validate_podcasts(cfg)
    /\ validate_app_config(env)
    /\ validate_env_vars(env)

\* a podcasts.yaml that passes: the second podcasts.yaml with the name and
\* the rss_url of each entry
podcasts_config_full ==
    << [name |-> "B", slug |-> "b", rss_url |-> "https://example.com/b.xml",
        active |-> TRUE, emails |-> <<"r1", "r2", "r1">>],
       [name |-> "C", slug |-> "c", rss_url |-> "https://example.com/c.xml",
        active |-> TRUE, emails |-> <<>>] >>

\* the entry at position i without its field 'name'
without_name(cfg, i) ==
    [k \in 1..Len(cfg) |->
        IF k = i
        THEN [f \in DOMAIN cfg[k] \ {"name"} |-> cfg[k][f]]
        ELSE cfg[k]]

\* the files as someone may leave them between two runs: the valid ones (with
\* either key of a language model), and one file set for each way of being
\* invalid that the tests of the validation exercise
LoadCases ==
    LET ok_env == app_env_valid
        with(key, value) == [podcasts_config_full EXCEPT ![1][key] = value]
    IN
    { [podcasts |-> podcasts_config_full, env |-> ok_env],
      [podcasts |-> podcasts_config_full,
       env |-> [ok_env EXCEPT !.keys =
                   {"ASSEMBLYAI_API_KEY", "RESEND_API_KEY", "GEMINI_API_KEY"}]],
      [podcasts |-> without_name(podcasts_config_full, 1), env |-> ok_env],
      [podcasts |-> with("slug", "c"), env |-> ok_env],
      [podcasts |-> with("emails", <<"r1", "not-an-email">>), env |-> ok_env],
      [podcasts |-> podcasts_config_full,
       env |-> [ok_env EXCEPT !.system_email = "admin@example"]],
      [podcasts |-> podcasts_config_full,
       env |-> [ok_env EXCEPT !.system_email = ""]],
      [podcasts |-> podcasts_config_full,
       env |-> [ok_env EXCEPT !.keys = {"RESEND_API_KEY", "OPENAI_API_KEY"}]],
      [podcasts |-> podcasts_config_full,
       env |-> [ok_env EXCEPT !.keys = {"ASSEMBLYAI_API_KEY", "RESEND_API_KEY"}]] }

\* podcasts.yaml, config.yaml and .env are replaced while no run is in progress
EditFiles ==
    /\ pc = "idle"
    /\ \E c \in LoadCases :
         /\ << c.podcasts, c.env >> # << config, app_env, delivered >>
         /\ config' = c.podcasts
         /\ app_env' = c.env
    /\ UNCHANGED << dbvars, pc, run, active_podcasts, pidx, feed_episodes, eidx,
                    episode_id, ridx, all_emails_sent, has_failures, rc, trace,
                    ev0, mail0, last_call, workers, download_dir, delivered >>

\* main from its first statement: load_all, and "return 1" when it is False;
\* otherwise the run goes on with setup_and_sync
MainChecked ==
    IF load_all(config, app_env)
    THEN MainStart
    ELSE /\ pc = "idle"
         /\ run < MaxRuns
         /\ run' = run + 1
         /\ rc' = 1
         /\ trace' = <<>>
         /\ ev0' = Len(processing_events)
         /\ mail0' = Len(email_log)
         /\ UNCHANGED << dbvars, pc, active_podcasts, pidx, feed_episodes, eidx,
                         episode_id, ridx, all_emails_sent, has_failures,
                         last_call, config, workers, download_dir, app_env, delivered >>

CheckedNext ==
    \/ MainChecked
    \/ EditFiles
    \/ ProcessPodcast
    \/ LookupEpisode
    \/ CheckEligibility
    \/ Download
    \/ Contextualize
    \/ Transcribe
    \/ Summarize
    \/ SendEmail
    \/ FinishEmail
    \/ Complete
    \/ MoveToArchive
    \/ HandleFailure
    \/ Finish

CheckedSpec == InitState(podcasts_config_full) /\ [][CheckedNext]_vars

(* ------------------------- run_pipeline.py: process ------------------- *)

\* Every command of run_pipeline.py is one step: it runs from
\* cli_context.initialize() to cleanup() while no other process uses the
\* store, and created_at never decreases, so that the events of a command
\* are ordered by their ids. The files of this section pass load_all.

\* the tables as a command has them so far, the calls it made, the sends that
\* succeeded, and the flag of the recipient loop
CliState ==
    [episodes |-> episodes, events |-> processing_events, log |-> email_log,
     calls |-> <<>>, sent |-> <<>>, all_sent |-> TRUE]

\* a call of a collaborator (or of email_already_sent) and its result
called(st, op, guid, arg, out) ==
    [st EXCEPT !.calls = Append(@, Entry(op, guid, arg, out))]

\* cli_context.db.add_processing_event
event(st, id, status, event_data) ==
    [st EXCEPT !.events = add_processing_event(@, id, status, event_data, now)]

\* Downloader.move_to_processing: the same file name under processing/
move_to_processing(path) ==
    IF path = "data/audio/downloaded/g1.mp3" THEN "data/audio/processing/g1.mp3"
    ELSE "data/audio/processing/g2.mp3"

\* audio_path_obj.parent.name == 'downloaded'
in_downloaded(path) == \E g \in Guids : path = audio_path_of(g)

\* the `except Exception` handler of process and of the single-stage
\* commands: get_current_status, failed_stage_map, the failed event
cli_handler(st, id, msg) ==
    event(st, id, "failed",
          << <<"error_message", msg>>,
             <<"failed_stage", failed_stage_map(get_current_status(st.events, id))>> >>)

\* the command ends: the tables it leaves, its exit code, and what the
\* history variables record of it. initialize() has synced the podcasts.
CliReturn(cmd, guid, id, code, left) ==
    \E st \in {left} :
    /\ run' = run + 1
    /\ rc' = code
    /\ podcasts' = sync_podcasts(podcasts, config)
    /\ episodes' = st.episodes
    /\ processing_events' = st.events
    /\ email_log' = st.log
    /\ trace' = st.calls
    /\ delivered' = delivered \o st.sent
    /\ ev0' = Len(processing_events)
    /\ mail0' = Len(email_log)
    /\ last_call' = Call(cmd, guid, id, code)
    /\ UNCHANGED << now, pc, active_podcasts, pidx, feed_episodes, eidx,
                    episode_id, ridx, all_emails_sent, has_failures, config,
                    workers, download_dir, app_env >>

\* `for recipient in recipient_list` of email and of process's stage 5, from
\* position k: skip a recipient with a row in email_log, otherwise send and,
\* on success, log_email_sent; outs[k] is the result of the send at k
RECURSIVE send_each(_, _, _, _, _, _)
send_each(left, id, guid, recipients, outs, k) ==
    CHOOSE result \in
        { IF k > Len(recipients) THEN st
          ELSE LET recipient == recipients[k]
                   next == IF email_already_sent(st.log, id, recipient)
                           THEN called(st, "email_already_sent", guid, recipient, "skip")
                           ELSE [called(st, "send", guid, recipient, outs[k]) EXCEPT
                                    !.log = IF send_succeeded(outs[k])
                                            THEN log_email_sent(@, id, recipient).table
                                            ELSE @,
                                    !.all_sent = after_send(@, outs[k]),
                                    !.sent = IF outs[k] = "ok"
                                             THEN Append(@, << id, recipient >>)
                                             ELSE @]
               IN send_each(next, id, guid, recipients, outs, k + 1)
          : st \in {left} } : TRUE

\* process, the handler of one episode's try block; the loop continues and
\* the command exits with 0
ProcessFailed(at, msg) ==
    \E c \in {at} :
    CliReturn("process", c.guid, c.id, 0, cli_handler(c.st, c.id, msg))

\* process, "Mark as completed if all stages were run": the completed event,
\* then move_to_archive inside the same try block
ProcessComplete(at) ==
    \E c \in {at} :
    LET st == event(c.st, c.id, "completed", <<>>) IN
    \E out \in ArchiveOutcomes :
        IF out = "ok"
        THEN CliReturn("process", c.guid, c.id, 0, called(st, "archive", c.guid, "", out))
        ELSE ProcessFailed([c EXCEPT !.st = called(st, "archive", c.guid, "", out)],
                           "archive")

\* process, stage 5: no recipients configured skips the stage; otherwise the
\* recipient loop, and the emailed event if every send succeeded
ProcessEmail(at) ==
    \E c \in {at} :
    LET recipients == config[c.k].emails IN
    IF c.summary_text = ""
    THEN ProcessFailed(c, "No summary available")
    ELSE IF Len(recipients) = 0
    THEN ProcessComplete(c)
    ELSE \E outs \in [1..Len(recipients) -> SendOutcomes] :
            \E st \in {send_each(c.st, c.id, c.guid, recipients, outs, 1)} :
            /\ \A k \in 1..Len(recipients) :
                  \* a send that is not made has no result to choose
                  outs[k] = "ok" \/ \E i \in 1..Len(st.calls) :
                                       st.calls[i] = Entry("send", c.guid, recipients[k], outs[k])
            /\ ProcessComplete(
                  [c EXCEPT !.st = IF st.all_sent
                                   THEN event(st, c.id, "emailed",
                                              << <<"recipients", config[c.k].slug>> >>)
                                   ELSE st])

\* process, stage 4: skipped with a summary on the episode row
ProcessSummarize(at) ==
    \E c \in {at} :
    IF c.transcript_path = ""
    THEN ProcessFailed(c, "No transcript available")
    ELSE IF c.summary_text # ""
    THEN ProcessEmail(c)
    ELSE \E out \in StageOutcomes :
            LET st == called(c.st, "summarize", c.guid, "", out) IN
            IF stage_failed(out)
            THEN ProcessFailed([c EXCEPT !.st = st], "Failed to generate summary")
            ELSE ProcessEmail(
                    [c EXCEPT !.summary_text = "summary",
                              !.st = event([st EXCEPT !.episodes =
                                               update_episode_summary(@, c.id, "summary")],
                                           c.id, "summarized",
                                           << <<"summary_path", "summary">> >>)])

\* process, stage 3: skipped with a transcript file at the recorded path;
\* otherwise move_to_processing for a file under downloaded/ with a second
\* downloaded event, then transcribe_audio
ProcessTranscribe(at) ==
    \E c \in {at} :
    \E transcript_exists \in IF c.transcript_path = "" THEN {FALSE} ELSE BOOLEAN :
        IF transcript_exists
        THEN ProcessSummarize(c)
        ELSE \E out \in TranscribeOutcomes :
                LET moves == in_downloaded(c.audio_path)
                    path == IF moves THEN move_to_processing(c.audio_path)
                            ELSE c.audio_path
                    moved == IF moves
                             THEN event(c.st, c.id, "downloaded",
                                        << <<"audio_path", path>> >>)
                             ELSE c.st
                IN CASE out = "raise" /\ moves ->
                          ProcessFailed(c, "move_to_processing")
                     [] out = "raise" /\ ~moves -> FALSE
                     [] out = "null" ->
                          ProcessFailed(
                              [c EXCEPT !.st = called(moved, "transcribe", c.guid, "", out)],
                              "Failed to transcribe audio")
                     [] OTHER ->
                          ProcessSummarize(
                              [c EXCEPT !.transcript_path = "transcript",
                                        !.st = event(called(moved, "transcribe",
                                                            c.guid, "", out),
                                                     c.id, "transcribed",
                                                     << <<"transcript_path",
                                                          "transcript">> >>)])

\* process, stage 2: skipped with a context on the episode row
ProcessContextualize(at) ==
    \E c \in {at} :
    IF c.st.episodes[c.id].context # ""
    THEN ProcessTranscribe(c)
    ELSE \E out \in StageOutcomes :
            LET st == called(c.st, "contextualize", c.guid, "", out) IN
            IF stage_failed(out)
            THEN ProcessFailed([c EXCEPT !.st = st], "Failed to generate context")
            ELSE ProcessTranscribe(
                    [c EXCEPT !.st = event([st EXCEPT !.episodes =
                                               update_episode_context(@, c.id, "context")],
                                           c.id, "contextualized", <<>>)])

\* process, stage 1: skipped with an audio file at the path of the latest
\* downloaded event; whether the file is still there is the file system's
ProcessDownload(at) ==
    \E c \in {at} :
    \E audio_exists \in IF c.audio_path = "" THEN {FALSE} ELSE BOOLEAN :
        IF audio_exists
        THEN ProcessContextualize(c)
        ELSE \E out \in StageOutcomes :
                LET st == called(c.st, "download", c.guid, "", out) IN
                IF stage_failed(out)
                THEN ProcessFailed([c EXCEPT !.st = st], "Failed to download audio")
                ELSE ProcessContextualize(
                        [c EXCEPT !.audio_path = audio_path_of(c.guid),
                                  !.st = event(st, c.id, "downloaded",
                                               << <<"audio_path",
                                                    audio_path_of(c.guid)>> >>)])

\* process, the filter "already downloaded": an episode whose current status
\* is None or failed is processed
process_skips(current_status) ==
    current_status \in {"downloaded", "contextualized", "transcribed",
                        "summarized", "emailed", "completed"}

\* run_pipeline.py process --podcast <slug> (--limit 1, the default): the
\* feed's latest episode, the filter, and the five stages for it
CliProcess ==
    /\ pc = "idle"
    /\ run < MaxCommands
    /\ \E k \in 1..Len(config), fetch \in FetchOutcomes :
         LET guid == feed_of(config[k].slug)[1]
             synced == sync_podcasts(podcasts, config)
             podcast_id == CHOOSE i \in Ids(synced) : synced[i].slug = config[k].slug
             found == get_episode_by_guid(episodes, guid)
             ins == insert_episode(episodes, synced, podcast_id, guid)
             id == IF found # 0 THEN found ELSE ins.id
             st == IF found # 0 THEN CliState
                   ELSE [CliState EXCEPT !.episodes = ins.table]
         IN CASE fetch = "raise" -> CliReturn("process", guid, 0, 1, CliState)
              [] fetch = "empty" -> CliReturn("process", guid, 0, 0, CliState)
              [] fetch = "episodes" /\ found # 0
                   /\ process_skips(get_current_status(processing_events, found)) ->
                   CliReturn("process", guid, found, 0, CliState)
              [] OTHER ->
                   ProcessDownload(
                       [k |-> k, id |-> id, guid |-> guid, st |-> st,
                        audio_path |->
                            field(get_event_data(processing_events, id, "downloaded"),
                                  "audio_path"),
                        transcript_path |->
                            field(get_event_data(processing_events, id, "transcribed"),
                                  "transcript_path"),
                        summary_text |-> st.episodes[id].generated_summary])

(* -------------------------- run_pipeline.py: email -------------------- *)

\* --recipients: absent (the configured emails are used), or a list typed on
\* the command line
CliRecipients == {<<>>, <<"r2", "r2">>}

\* run_pipeline.py email --episode-id <id> [--recipients ...] for an episode
\* of the table: no summary is an error; otherwise the recipient loop, and
\* the emailed event if every send succeeded
CliEmail ==
    /\ pc = "idle"
    /\ run < MaxCommands
    /\ \E id \in Ids(episodes), option \in CliRecipients :
         LET guid == episodes[id].episode_guid
             synced == sync_podcasts(podcasts, config)
             k == podcast_lookup(synced[episodes[id].podcast_id].slug)
             recipient_list == IF option # <<>> THEN option
                               ELSE IF k # 0 THEN config[k].emails ELSE <<>>
         IN IF k = 0 \/ episodes[id].generated_summary = "" \/ recipient_list = <<>>
            THEN CliReturn("email", guid, id, 1, CliState)
            ELSE \E outs \in [1..Len(recipient_list) -> SendOutcomes] :
                    \E st \in {send_each(CliState, id, guid, recipient_list, outs, 1)} :
                    /\ \A i \in 1..Len(recipient_list) :
                          outs[i] = "ok" \/ \E j \in 1..Len(st.calls) :
                              st.calls[j] = Entry("send", guid, recipient_list[i], outs[i])
                    /\ CliReturn("email", guid, id, 0,
                                 IF st.all_sent
                                 THEN event(st, id, "emailed",
                                            << <<"recipients", guid>> >>)
                                 ELSE st)

(* --------------- run_pipeline.py: fetch and the single stages --------- *)

\* fetch, "Check if already downloaded": the statuses for which the download
\* is skipped
fetch_skips(current_status) ==
    current_status \in {"downloaded", "transcribed", "summarized", "emailed",
                        "completed"}

\* run_pipeline.py fetch --podcast <slug> [--no-download] (--limit 1): the
\* feed's latest episode gets its row, and its audio unless the status check
\* skips it; a failed download is reported and leaves no event
CliFetch ==
    /\ pc = "idle"
    /\ run < MaxCommands
    /\ \E k \in 1..Len(config), fetch \in FetchOutcomes, download \in BOOLEAN :
         LET guid == feed_of(config[k].slug)[1]
             synced == sync_podcasts(podcasts, config)
             podcast_id == CHOOSE i \in Ids(synced) : synced[i].slug = config[k].slug
             found == get_episode_by_guid(episodes, guid)
             ins == insert_episode(episodes, synced, podcast_id, guid)
             id == IF found # 0 THEN found ELSE ins.id
             st == IF found # 0 THEN CliState
                   ELSE [CliState EXCEPT !.episodes = ins.table]
         IN CASE fetch = "raise" -> CliReturn("fetch", guid, 0, 1, CliState)
              [] fetch = "empty" -> CliReturn("fetch", guid, 0, 0, CliState)
              [] fetch = "episodes"
                   /\ (~download \/ fetch_skips(get_current_status(processing_events, id))) ->
                   CliReturn("fetch", guid, id, 0, st)
              [] OTHER ->
                   \E out \in StageOutcomes :
                      CliReturn("fetch", guid, id, 0,
                          IF stage_failed(out)
                          THEN called(st, "download", guid, "", out)
                          ELSE event(called(st, "download", guid, "", out), id,
                                     "downloaded",
                                     << <<"audio_path", audio_path_of(guid)>> >>))

\* the else branch of a single-stage command: the failed event that names
\* the stage, then `raise click.ClickException`, which the command's own
\* `except Exception` handler catches
stage_command_failed(st, id, stage, msg) ==
    cli_handler(event(st, id, "failed",
                      << <<"error_message", msg>>, <<"failed_stage", stage>> >>),
                id, msg)

\* run_pipeline.py contextualize --episode-id <id> for an episode of the table
CliContextualize ==
    /\ pc = "idle"
    /\ run < MaxCommands
    /\ \E id \in Ids(episodes) :
         LET guid == episodes[id].episode_guid
             synced == sync_podcasts(podcasts, config)
             k == podcast_lookup(synced[episodes[id].podcast_id].slug)
         IN IF k = 0
            THEN CliReturn("contextualize", guid, id, 1,
                           cli_handler(CliState, id, "Podcast config not found"))
            ELSE \E out \in StageOutcomes :
                    LET st == called(CliState, "contextualize", guid, "", out) IN
                    IF stage_failed(out)
                    THEN CliReturn("contextualize", guid, id, 1,
                                   stage_command_failed(st, id, "contextualize",
                                                        "Contextualization failed"))
                    ELSE CliReturn("contextualize", guid, id, 0,
                                   event([st EXCEPT !.episodes =
                                             update_episode_context(@, id, "context")],
                                         id, "contextualized", <<>>))

\* run_pipeline.py transcribe --episode-id <id>: the audio of the latest
\* downloaded event must be on disk; a file under downloaded/ is moved first,
\* with a second downloaded event
CliTranscribe ==
    /\ pc = "idle"
    /\ run < MaxCommands
    /\ \E id \in Ids(episodes) :
         LET guid == episodes[id].episode_guid
             audio_path == field(get_event_data(processing_events, id, "downloaded"),
                                 "audio_path")
             moves == in_downloaded(audio_path)
             moved == IF moves
                      THEN event(CliState, id, "downloaded",
                                 << <<"audio_path", move_to_processing(audio_path)>> >>)
                      ELSE CliState
         IN \E audio_exists \in IF audio_path = "" THEN {FALSE} ELSE BOOLEAN :
               IF ~audio_exists
               THEN CliReturn("transcribe", guid, id, 1,
                              cli_handler(CliState, id, "Audio file not found"))
               ELSE \E out \in TranscribeOutcomes :
                       LET st == called(moved, "transcribe", guid, "", out) IN
                       CASE out = "raise" /\ moves ->
                              CliReturn("transcribe", guid, id, 1,
                                        cli_handler(CliState, id, "move_to_processing"))
                         [] out = "raise" /\ ~moves -> FALSE
                         [] out = "null" ->
                              CliReturn("transcribe", guid, id, 1,
                                        stage_command_failed(st, id, "transcribe",
                                                             "Transcription failed"))
                         [] OTHER ->
                              CliReturn("transcribe", guid, id, 0,
                                        event(st, id, "transcribed",
                                              << <<"transcript_path", "transcript">> >>))

\* run_pipeline.py summarize --episode-id <id>: the transcript of the latest
\* transcribed event must be on disk
CliSummarize ==
    /\ pc = "idle"
    /\ run < MaxCommands
    /\ \E id \in Ids(episodes) :
         LET guid == episodes[id].episode_guid
             transcript_path ==
                 field(get_event_data(processing_events, id, "transcribed"),
                       "transcript_path")
         IN \E transcript_exists \in IF transcript_path = "" THEN {FALSE} ELSE BOOLEAN :
               IF ~transcript_exists
               THEN CliReturn("summarize", guid, id, 1,
                              cli_handler(CliState, id, "Transcript file not found"))
               ELSE \E out \in StageOutcomes :
                       LET st == called(CliState, "summarize", guid, "", out) IN
                       IF stage_failed(out)
                       THEN CliReturn("summarize", guid, id, 1,
                                      stage_command_failed(st, id, "summarize",
                                                           "Summarization failed"))
                       ELSE CliReturn("summarize", guid, id, 0,
                                      event([st EXCEPT !.episodes =
                                                update_episode_summary(@, id, "summary")],
                                            id, "summarized",
                                            << <<"summary_path", "summary">> >>))

\* a podcasts.yaml with one podcast, an address listed twice
podcasts_config_one ==
    << [slug |-> "b", active |-> TRUE, emails |-> <<"r1", "r2", "r1">>] >>

\* the commands of run_pipeline.py one after the other, main never run
CliSpec ==
    InitState(podcasts_config_one) /\
    [][CliFetch \/ CliContextualize \/ CliTranscribe \/ CliSummarize
       \/ CliEmail \/ CliProcess]_vars

(* ------------- main and run_pipeline.py, one after the other ---------- *)

PipelineSpec ==
    InitState(podcasts_config_one) /\ [][Next \/ CliProcess \/ CliEmail]_vars

(* ------------------------------ claims -------------------------------- *)

Range(seq) == {seq[k] : k \in 1..Len(seq)}
Max(S) == CHOOSE x \in S : \A y \in S : x >= y

\* the events of one episode, oldest first (insertion order)
log_of(tbl, id) == SelectSeq(tbl, LAMBDA r : r.episode_id = id)
statuses_of(tbl, id) == [k \in 1..Len(log_of(tbl, id)) |-> log_of(tbl, id)[k].status]
IsPrefix(s, t) == Len(s) <= Len(t) /\ \A k \in 1..Len(s) : s[k] = t[k]

\* the trace operations that invoke a collaborator
CollaboratorOps == {"download", "contextualize", "transcribe", "summarize", "send", "archive"}

\* an episode's status when the current run of main started
status_at_run_start(id) ==
    get_current_status(SubSeq(processing_events, 1, ev0), id)

\* C1. No retry on failed: for an episode whose status was failed when the
\* current run started, the run has appended no event, written no row of
\* email_log and invoked no collaborator, also after process_episode was called
\* on its guid.
C1_NoRetryOnFailed ==
    LET log0 == SubSeq(processing_events, 1, ev0) IN
    \A id \in Ids(episodes) :
        get_current_status(log0, id) = "failed" =>
            /\ events_of(processing_events, id) \subseteq 1..ev0
            /\ \A i \in Ids(email_log) : email_log[i].episode_id = id => i <= mail0
            /\ \A k \in Ids(trace) :
                   trace[k].key = episodes[id].episode_guid
                       => trace[k].op \notin CollaboratorOps

\* a run in which process_episode was called on the guid of an episode that
\* was failed at the start of the run, and returned
C1_Witness ==
    \E id \in Ids(episodes) :
        /\ status_at_run_start(id) = "failed"
        /\ Entry("lookup", episodes[id].episode_guid, "", "skip") \in Range(trace)
        /\ pc = "idle"

\* C2. Status derivation: get_current_status is the status of the event
\* inserted last for the episode (the one with the largest row id), NoStatus
\* for an empty log, whatever the timestamps and the earlier statuses.
C2_StatusIsLastInserted ==
    \A id \in StoreEpisodeIds :
        get_current_status(processing_events, id) =
            IF events_of(processing_events, id) = {} THEN NoStatus
            ELSE processing_events[Max(events_of(processing_events, id))].status

\* the log [downloaded, contextualized, failed], all written within one second
C2_Witness ==
    \E id \in StoreEpisodeIds :
        /\ statuses_of(processing_events, id) = <<"downloaded", "contextualized", "failed">>
        /\ \A i \in events_of(processing_events, id) : processing_events[i].created_at = now
        /\ get_current_status(processing_events, id) = "failed"

\* C3. Append-only log: every step leaves each existing row of
\* processing_events as it was, so each episode's log is only ever extended at
\* its end, and a step extends the log of at most one episode.
C3_AppendOnly ==
    [][ /\ \A i \in Ids(processing_events) :
              /\ i \in Ids(processing_events')
              /\ processing_events'[i] = processing_events[i]
        /\ \A id \in Ids(episodes') :
              IsPrefix(log_of(processing_events, id), log_of(processing_events', id))
        /\ Cardinality({id \in Ids(episodes') :
              log_of(processing_events', id) # log_of(processing_events, id)}) <= 1
      ]_vars

\* two episodes with events, one of them with a log of several events followed
\* by a failed event
C3_Witness ==
    \E id1, id2 \in Ids(episodes) :
        /\ id1 # id2
        /\ Len(log_of(processing_events, id1)) >= 3
        /\ get_current_status(processing_events, id1) = "failed"
        /\ Len(log_of(processing_events, id2)) >= 1

\* C5. Idempotent creation: episodes holds at most one row per episode_guid,
\* and insert_episode with a guid that is already stored fails, leaves the
\* table as it was, and the guid still resolves to the original row.
C5_IdempotentCreation ==
    /\ [](\A i, j \in Ids(episodes) :
              episodes[i].episode_guid = episodes[j].episode_guid => i = j)
    /\ [][ \A guid \in Guids :
              ( /\ get_episode_by_guid(episodes, guid) # 0
                /\ last_call'.op = "insert_episode"
                /\ last_call'.guid = guid )
              => /\ last_call'.out = "IntegrityError: UNIQUE"
                 /\ episodes' = episodes
                 /\ get_episode_by_guid(episodes', guid) = get_episode_by_guid(episodes, guid)
       ]_vars

\* insert_episode was just called with a stored guid
C5_Witness ==
    /\ last_call.op = "insert_episode"
    /\ last_call.out = "IntegrityError: UNIQUE"
    /\ get_episode_by_guid(episodes, last_call.guid) # 0
    /\ Len(episodes) = Cardinality(Guids)

\* the events appended since the current run of main started
new_events(id) == {i \in events_of(processing_events, id) : i > ev0}

\* the table of C4, stated on its own
C4_Table ==
    [s \in Statuses \cup {NoStatus} |->
        IF s = NoStatus THEN "download"
        ELSE IF s = "downloaded" THEN "contextualize"
        ELSE IF s = "contextualized" THEN "transcribe"
        ELSE IF s = "transcribed" THEN "summarize"
        ELSE IF s = "summarized" THEN "email"
        ELSE "unknown"]

\* C4. Failed-stage inference: the failed_stage of every failed event is the
\* table's entry for the status the episode had immediately before that event
\* was appended, and nothing else.
C4_FailedStageInference ==
    \A i \in Ids(processing_events) :
        processing_events[i].status = "failed" =>
            field(processing_events[i].event_data, "failed_stage") =
                C4_Table[get_current_status(SubSeq(processing_events, 1, i - 1),
                                            processing_events[i].episode_id)]

\* the log [downloaded, contextualized, failed] with failed_stage transcribe,
\* and another failed event recorded with failed_stage unknown
C4_Witness ==
    /\ \E id \in Ids(episodes) :
         /\ statuses_of(processing_events, id) = <<"downloaded", "contextualized", "failed">>
         /\ field(log_of(processing_events, id)[3].event_data, "failed_stage") = "transcribe"
    /\ \E i \in Ids(processing_events) :
         /\ processing_events[i].status = "failed"
         /\ field(processing_events[i].event_data, "failed_stage") = "unknown"

\* the position of a collaborator, and of the event a stage appends, in the
\* pipeline's order
StageNo(op) ==
    CASE op = "download" -> 1
      [] op = "contextualize" -> 2
      [] op = "transcribe" -> 3
      [] op = "summarize" -> 4
      [] op = "send" -> 5
      [] OTHER -> 7
EventStage(status) ==
    CASE status = "downloaded" -> 1
      [] status = "contextualized" -> 2
      [] status = "transcribed" -> 3
      [] status = "summarized" -> 4
      [] status = "emailed" -> 5
      [] OTHER -> 6

\* a collaborator returned empty or raised at position k of the trace
stage_failure_at(k) == trace[k].op \in CollaboratorOps /\ trace[k].out # "ok"

\* the handler entry that follows position k for the same guid, 0 if the
\* handler has not run yet
handler_after(k) ==
    LET hs == {h \in (k + 1)..Len(trace) :
                   trace[h].op = "handler" /\ trace[h].key = trace[k].key}
    IN IF hs = {} THEN 0 ELSE CHOOSE h \in hs : \A h2 \in hs : h <= h2

SuccessOuts == {"new", "exists", "eligible", "ok", "skip"}

\* a finished run over collection a in which item g1 was new and eligible, its
\* transcribe stage raised and the failure was recorded, and item g2 had no
\* event before the run, was eligible and none of its stages failed
C7_Scenario ==
    /\ pc = "idle" /\ run > 0
    /\ Entry("process_podcast", "a", "", "episodes") \in Range(trace)
    /\ Entry("lookup", "g1", "", "new") \in Range(trace)
    /\ Entry("eligibility", "g1", "", "eligible") \in Range(trace)
    /\ Entry("transcribe", "g1", "", "raise") \in Range(trace)
    /\ Entry("handler", "g1", "", "ok") \in Range(trace)
    /\ \A i \in 1..ev0 :
           processing_events[i].episode_id # get_episode_by_guid(episodes, "g2")
    /\ \A k \in Ids(trace) : trace[k].key = "g2" => trace[k].out \in SuccessOuts

\* C7. Failure isolation between items: after such a run item 1 has current
\* status failed, item 2 has current status completed, and main returned (no
\* exception escaped it).
C7_FailureIsolation ==
    C7_Scenario =>
        /\ get_current_status(processing_events, get_episode_by_guid(episodes, "g1")) = "failed"
        /\ get_current_status(processing_events, get_episode_by_guid(episodes, "g2")) = "completed"
        /\ rc \in {0, 1}

\* the scenario happened, and item 2 went through every stage in this run
C7_Witness ==
    /\ C7_Scenario
    /\ Entry("archive", "g2", "", "ok") \in Range(trace)
    /\ Entry("send", "g2", "r2", "ok") \in Range(trace)

\* the process_podcast entry under which position k of the trace happened
podcast_entry_of(k) ==
    Max({p \in 1..k : trace[p].op = "process_podcast"})

\* the positions of the trace that belong to the same call of process_podcast
\* as position k
segment_of(k) ==
    {j \in podcast_entry_of(k)..Len(trace) : podcast_entry_of(j) = podcast_entry_of(k)}

\* an error was raised while an item was processed: in identity resolution, in
\* a stage, after the recipient loop, or while the failure was recorded
item_error_at(k) ==
    \/ stage_failure_at(k)
    \/ trace[k].op \in {"lookup", "emailed", "handler"} /\ trace[k].out = "raise"

\* an error left process_episode: identity resolution is outside the try
\* block, and the except handler's own statements are not guarded
escaped_at(k) == trace[k].op \in {"lookup", "handler"} /\ trace[k].out = "raise"

new_failed_events ==
    {i \in Ids(processing_events) : i > ev0 /\ processing_events[i].status = "failed"}

attempted ==
    LET ps == SelectSeq(trace, LAMBDA r : r.op = "process_podcast")
    IN [k \in 1..Len(ps) |-> ps[k].key]
active_slugs == [k \in 1..Len(active_podcasts) |-> podcasts[active_podcasts[k]].slug]

\* C9. Collection-level isolation: the collections attempted in a run are, in
\* order and without repetition, those returned by get_active_podcasts: always
\* a prefix of that list, and the whole list once main has returned.
C9_EveryCollectionOnce ==
    /\ IsPrefix(attempted, active_slugs)
    /\ pc # "idle" => Len(attempted) = (IF pc = "podcast_loop" THEN pidx - 1 ELSE pidx)
    /\ (pc = "idle" /\ rc \in {0, 1}) => attempted = active_slugs

\* a finished run in which the feed fetch of the first collection raised and
\* the second collection was attempted and had episodes
C9_Witness ==
    /\ pc = "idle" /\ rc = 1
    /\ Len(trace) > 2
    /\ trace[1] = Entry("process_podcast", "a", "", "raise")
    /\ trace[2] = Entry("process_podcast", "b", "", "episodes")

\* C10. Degraded outcome: a run of main that appended a failed event returns a
\* non-zero code.
C10_DegradedOutcome ==
    (pc = "idle" /\ new_failed_events # {}) => rc # 0

\* the rows of email_log written since the current run started
new_mail == {i \in Ids(email_log) : i > mail0}

\* the positions of the trace at which a send to this recipient succeeded
sent_ok(guid, recipient) ==
    {j \in Ids(trace) : trace[j] = Entry("send", guid, recipient, "ok")}

\* C11. Delivery dedup within a run: the distributor is called for a
\* destination only when the item has no row of email_log for it at that
\* moment (none from before the run, none from an earlier send of the run), a
\* destination found in email_log is skipped, the run writes one row per
\* successful send and no other, and when the emailed event is appended every
\* configured destination has a row and the item has exactly one emailed event.
C11_DeliveryDedup ==
    /\ \A k \in Ids(trace) :
         LET id == get_episode_by_guid(episodes, trace[k].key) IN
         /\ trace[k].op = "send" =>
              /\ \A j \in sent_ok(trace[k].key, trace[k].arg) : j >= k
              /\ \A i \in 1..mail0 :
                     ~(email_log[i].episode_id = id
                       /\ email_log[i].recipient_email = trace[k].arg)
         /\ trace[k].op = "email_already_sent" =>
              \E j \in sent_ok(trace[k].key, trace[k].arg) : j < k
         /\ trace[k] = Entry("emailed", trace[k].key, "", "ok") =>
              /\ \A r \in Range(config[podcast_lookup(trace[podcast_entry_of(k)].key)].emails) :
                     email_already_sent(email_log, id, r)
              /\ Cardinality({i \in events_of(processing_events, id) :
                                  processing_events[i].status = "emailed"}) = 1
    /\ \A i \in new_mail :
         \E guid \in Guids :
             /\ email_log[i].episode_id = get_episode_by_guid(episodes, guid)
             /\ sent_ok(guid, email_log[i].recipient_email) # {}
    /\ Cardinality(new_mail) =
           Cardinality({j \in Ids(trace) : trace[j].op = "send" /\ trace[j].out = "ok"})

\* destinations [r1, r2, r1]: both addresses were sent to, the repeated one
\* was found in email_log and skipped, and the emailed event was appended
C11_Witness ==
    \E k \in Ids(trace) :
        /\ k > 3
        /\ trace[k] = Entry("emailed", "g2", "", "ok")
        /\ trace[k - 1] = Entry("email_already_sent", "g2", "r1", "skip")
        /\ trace[k - 2] = Entry("send", "g2", "r2", "ok")
        /\ trace[k - 3] = Entry("send", "g2", "r1", "ok")

\* C20. Eligibility skip: a call of process_episode for an item of a
\* collection without destinations, or for an item over the age limit, appends
\* no event, writes no row of email_log and returns before any collaborator is
\* called, in every run; the item g1, listed only by the collection without
\* destinations, never has an event, a row of email_log or a collaborator call.
C20_EligibilitySkip ==
    /\ [][ ( /\ pc = "eligibility"
             /\ \/ Len(cur_config.emails) = 0
                \/ trace'[Len(trace')].out = "too_old" )
           => /\ processing_events' = processing_events
              /\ email_log' = email_log
              /\ pc' \in {"lookup", "podcast_loop"}
              /\ trace'[Len(trace')].out \in {"no_emails", "too_old"}
         ]_vars
    /\ [](LET id == get_episode_by_guid(episodes, "g1") IN
          /\ events_of(processing_events, id) = {}
          /\ \A i \in Ids(email_log) : email_log[i].episode_id # id
          /\ \A k \in Ids(trace) :
                 trace[k].key = "g1" => trace[k].op \in {"lookup", "eligibility"})

\* a finished second run in which g1 was found again without a status and
\* skipped again for want of destinations, and g2 was skipped by its age
C20_Witness ==
    /\ pc = "idle" /\ run = 2
    /\ Entry("lookup", "g1", "", "exists") \in Range(trace)
    /\ Entry("eligibility", "g1", "", "no_emails") \in Range(trace)
    /\ Entry("eligibility", "g2", "", "too_old") \in Range(trace)
    /\ processing_events = <<>>

\* the positions of the trace at which a send for this item failed
send_failed(guid) ==
    {j \in Ids(trace) : trace[j].op = "send" /\ trace[j].key = guid /\ trace[j].out = "fail"}

new_emailed(id) ==
    {i \in new_events(id) : processing_events[i].status = "emailed"}

\* C12. The emailed event is appended only if no send of the run failed for
\* the item: the statement after the recipient loop appends it exactly when
\* the loop saw no failure, and when a send failed the run appends no emailed
\* event while the rows of email_log of the successful sends stay.
C12_EmailedOnlyIfAllSent ==
    \A k \in Ids(trace) :
        LET guid == trace[k].key
            id == get_episode_by_guid(episodes, guid)
        IN /\ trace[k].op = "emailed" =>
                (trace[k].out = "ok" <=> send_failed(guid) = {})
           /\ (trace[k].op = "send" /\ trace[k].out = "fail") =>
                new_emailed(id) = {}
           /\ (trace[k].op = "send" /\ trace[k].out = "ok") =>
                email_already_sent(email_log, id, trace[k].arg)

\* the send to r1 failed and the send to r2 succeeded: r2 has its row, the
\* item has no emailed event, and the run has moved on
C12_Witness ==
    \E k \in Ids(trace) :
        /\ k > 2
        /\ trace[k] = Entry("emailed", "g1", "", "raise")
        /\ trace[k - 1] = Entry("send", "g1", "r2", "ok")
        /\ trace[k - 2] = Entry("send", "g1", "r1", "fail")
        /\ email_already_sent(email_log, get_episode_by_guid(episodes, "g1"), "r2")
        /\ pc = "idle"

\* C13. Partial distribution failure: a run of main in which a send failed
\* for an item appends no failed event for that item.
C13_PartialFailureNotEscalated ==
    \A k \in Ids(trace) :
        (trace[k].op = "send" /\ trace[k].out = "fail") =>
            \A i \in new_failed_events :
                processing_events[i].episode_id #
                    get_episode_by_guid(episodes, trace[k].key)

\* the log of an episode before its row i
log_before(i) ==
    statuses_of(SubSeq(processing_events, 1, i - 1), processing_events[i].episode_id)

\* C14. Completion ordering: when a completed event is appended for an item,
\* the item's log up to it is downloaded, contextualized, transcribed,
\* summarized, emailed, in that order.
C14_CompletionOrdering ==
    \A i \in Ids(processing_events) :
        processing_events[i].status = "completed" =>
            log_before(i) = <<"downloaded", "contextualized", "transcribed",
                              "summarized", "emailed">>

\* two items completed
C14_Witness ==
    \E i, j \in Ids(processing_events) :
        /\ i # j
        /\ processing_events[i].status = "completed"
        /\ processing_events[j].status = "completed"

\* C15. Archival is best-effort: after move_to_archive raised for an item,
\* the item's current status is completed and the completed event is the last
\* event of its log.
C15_ArchivalBestEffort ==
    \A k \in Ids(trace) :
        trace[k] = Entry("archive", trace[k].key, "", "raise") =>
            LET id == get_episode_by_guid(episodes, trace[k].key) IN
            /\ get_current_status(processing_events, id) = "completed"
            /\ processing_events[Max(events_of(processing_events, id))].status = "completed"

\* C16. Idempotent resume: only completed and failed cause an item to be
\* skipped entirely. Whenever process_episode left an existing item at its
\* status check, the item's current status is completed or failed; an item in
\* a stage status is taken up again.
C16_IdempotentResume ==
    \A k \in Ids(trace) :
        trace[k] = Entry("lookup", trace[k].key, "", "skip") =>
            get_current_status(processing_events,
                get_episode_by_guid(episodes, trace[k].key)) \in {"completed", "failed"}

\* the trace operations of the stages that have a success event, and the event
StageOps == {"download", "contextualize", "transcribe", "summarize", "send"}
StageEvent(op) ==
    CASE op = "download" -> "downloaded"
      [] op = "contextualize" -> "contextualized"
      [] op = "transcribe" -> "transcribed"
      [] op = "summarize" -> "summarized"
      [] OTHER -> "emailed"

\* the stage's success event was in the item's log when the run started
succeeded_before_run(op, id) ==
    \E i \in events_of(processing_events, id) :
        i <= ev0 /\ processing_events[i].status = StageEvent(op)

\* the stage's success event was appended by the run before position k
succeeded_in_run_before(op, guid, k) ==
    \E j \in 1..(k - 1) :
        IF op = "send"
        THEN trace[j] = Entry("emailed", guid, "", "ok")
        ELSE trace[j] = Entry(op, guid, "", "ok")

\* C17. No repeated side effect: a run of main invokes the collaborator of a
\* stage for an item (also when the run is then killed inside the stage) only
\* if the stage's success event is not in the item's log, neither from an
\* earlier run, whether it ended or was killed, nor from an earlier position
\* of this run; so no item's log holds a success event twice.
C17_NoRepeatedSideEffect ==
    /\ \A k \in Ids(trace) :
          trace[k].op \in StageOps =>
              /\ ~succeeded_before_run(trace[k].op,
                                       get_episode_by_guid(episodes, trace[k].key))
              /\ ~succeeded_in_run_before(trace[k].op, trace[k].key, k)
    /\ \A id \in Ids(episodes) : \A op \in StageOps :
          Cardinality({i \in events_of(processing_events, id) :
                          processing_events[i].status = StageEvent(op)}) <= 1

\* a run was killed after the emailed event of g2; the next run met the item,
\* left it at the status check and ended
C17_Witness ==
    /\ run = 2
    /\ pc = "idle"
    /\ rc = 0
    /\ Entry("lookup", "g2", "", "skip") \in Range(trace)
    /\ status_at_run_start(get_episode_by_guid(episodes, "g2")) = "emailed"

\* the rows of email_log for one pair
ledger_rows(id, recipient) ==
    {i \in Ids(email_log) :
        email_log[i] = [episode_id |-> id, recipient_email |-> recipient]}

\* the process's log_email_sent was rejected by the store
log_rejected(w) ==
    workers[w].pc = "except" /\ workers[w].error = "IntegrityError: UNIQUE"

\* C18. Delivery Ledger uniqueness: email_log never holds two rows for one
\* (episode_id, recipient_email), also when overlapping runs both find no row
\* for a pair and both send; the later log_email_sent is then rejected by the
\* store and the pair has exactly one row.
C18_LedgerUniqueness ==
    /\ \A i, j \in Ids(email_log) : email_log[i] = email_log[j] => i = j
    /\ \A w \in Workers :
          log_rejected(w) =>
              Cardinality(ledger_rows(workers[w].episode_id,
                                      overlap_recipients[workers[w].ridx])) = 1

\* two processes found no row for the first recipient and sent; the store
\* rejected the second log_email_sent
C18_Witness ==
    \E w \in Workers :
        /\ log_rejected(w)
        /\ workers[w].ridx = 1
        /\ Len(email_log) = 1

\* C19. Identity violation is not an error: the guid has at most one row in
\* episodes, and no process has an error of insert_episode leave
\* process_episode, also when another process inserted the episode between
\* this one's lookup and its insert.
C19_IdentityViolationNotAnError ==
    /\ \A i, j \in Ids(episodes) :
          episodes[i].episode_guid = episodes[j].episode_guid => i = j
    /\ \A w \in Workers : workers[w].pc # "raised"

\* C21. Age threshold: the age check skips an item exactly when its
\* published_date parses and at least max_episode_age_days + 1 whole days lie
\* between it and now; an item of exactly max_episode_age_days whole days, one
\* of the future, and one whose date is missing or does not parse, proceed.
C21_AgeThreshold ==
    last_call.op = "age_check" =>
        LET parsed == fromisoformat(last_call.guid) IN
        (last_call.out = "skip") <=>
            /\ last_call.guid \notin {"None", ""}
            /\ parsed # NoDate
            /\ last_call.id - parsed >= (max_episode_age_days + 1) * 24

\* an item of max_episode_age_days whole days and 23 hours proceeds
C21_Witness ==
    last_call = Call("age_check", "2024-01-01T12:00:00",
                     12 + (max_episode_age_days + 1) * 24 - 1, "proceed")

\* the events of an episode with one status
events_with(id, status) ==
    {i \in events_of(processing_events, id) : processing_events[i].status = status}

\* C22. Round trip: for every episode and status whose last appended event
\* carries a non-empty payload, get_event_data returns exactly that payload,
\* whatever events of other statuses were appended before or after it and
\* however many older events of the same status exist.
C22_RoundTrip ==
    \A id \in Ids(episodes) : \A status \in EventDataStatuses :
        LET es == events_with(id, status) IN
        (es # {} /\ processing_events[Max(es)].event_data # <<>>) =>
            get_event_data(processing_events, id, status)
                = processing_events[Max(es)].event_data

\* two downloaded events with different payloads, then a failed event with a
\* payload of its own: the second downloaded payload is read back
C22_Witness ==
    /\ Len(processing_events) = 3
    /\ \A i \in 1..3 : processing_events[i].episode_id = 1
    /\ processing_events[1].status = "downloaded"
    /\ processing_events[2].status = "downloaded"
    /\ processing_events[3].status = "failed"
    /\ processing_events[1].event_data = << <<"audio_path", "/c/d.mp3">> >>
    /\ processing_events[2].event_data = << <<"audio_path", "/a/b.mp3">> >>
    /\ processing_events[3].event_data = << <<"audio_path", "/c/d.mp3">> >>
    /\ get_event_data(processing_events, 1, "downloaded")
           = << <<"audio_path", "/a/b.mp3">> >>

\* the rows of podcasts with one slug
rows_of(slug) == {i \in Ids(podcasts) : podcasts[i].slug = slug}

\* C24. Configuration sync never deletes: a call of sync_podcasts keeps every
\* row of podcasts with its id and slug; after it every configured slug has
\* exactly one row, whose active flag is the configured one, and every row
\* whose slug is not configured is inactive.
C24_SyncNeverDeletes ==
    /\ [](last_call.op = "sync_podcasts" =>
            /\ \A k \in 1..Len(config) :
                  /\ Cardinality(rows_of(config[k].slug)) = 1
                  /\ \A i \in rows_of(config[k].slug) :
                        podcasts[i].active = config[k].active
            /\ \A i \in Ids(podcasts) :
                  (\A k \in 1..Len(config) : config[k].slug # podcasts[i].slug)
                      => ~podcasts[i].active)
    /\ [][/\ Len(podcasts') >= Len(podcasts)
          /\ \A i \in Ids(podcasts) : podcasts'[i].slug = podcasts[i].slug]_vars

\* three podcasts were configured once; the latest file names only c, inactive
\* before and active now
C24_Witness ==
    /\ last_call.op = "sync_podcasts"
    /\ Len(podcasts) = 3
    /\ config = << [slug |-> "c", active |-> TRUE, emails |-> <<>>] >>
    /\ podcasts[1] = [slug |-> "c", active |-> TRUE]
    /\ ~podcasts[2].active /\ ~podcasts[3].active

\* the loaded configuration has no active podcast with this slug
not_active_in_config(slug) ==
    \A k \in 1..Len(config) : config[k].slug = slug => ~config[k].active

\* the episodes created under a podcast that the loaded configuration does not
\* name as active
episodes_of_inactive ==
    {e \in Ids(episodes) : not_active_in_config(podcasts[episodes[e].podcast_id].slug)}

\* C23. Inactive collections: while main runs, a podcast that the loaded
\* configuration switches off or no longer names is not returned by
\* get_active_podcasts, is not in main's list and is not handed to
\* process_podcast; every episode created under it is still found by its guid,
\* and no step of the run changes or removes an event of its history.
C23_InactiveCollections ==
    /\ [](pc # "idle" =>
            /\ \A i \in Ids(podcasts) :
                  not_active_in_config(podcasts[i].slug) =>
                      /\ i \notin Range(get_active_podcasts(podcasts))
                      /\ i \notin Range(active_podcasts)
                      /\ \A k \in Ids(trace) :
                            trace[k].op = "process_podcast" =>
                                trace[k].key # podcasts[i].slug
            /\ \A e \in episodes_of_inactive :
                  get_episode_by_guid(episodes, episodes[e].episode_guid) = e)
    /\ [][pc' # "idle" =>
            \A e \in episodes_of_inactive' :
                /\ e \in Ids(episodes)
                /\ episodes'[e].episode_guid = episodes[e].episode_guid
                /\ IsPrefix(log_of(processing_events, e), log_of(processing_events', e))]_vars

\* the first run completed g2 under podcast b; b was then switched off or
\* removed, and the second run went through its list without b
C23_Witness ==
    /\ run = 2
    /\ pc = "podcast_loop"
    /\ pidx > Len(active_podcasts)
    /\ not_active_in_config("b")
    /\ get_episode_by_guid(episodes, "g2") # 0
    /\ get_current_status(processing_events, get_episode_by_guid(episodes, "g2")) = "completed"
    /\ Len(trace) > 0

\* C25. Content Acquirer ceiling: whenever the audio is larger than the
\* ceiling or the fetch fails, download_audio returns (None, None) and no file
\* is left at the path in the download directory.
C25_AcquirerCeiling ==
    (/\ last_call.op = "download_audio"
     /\ (last_call.id > max_file_size_bytes \/ last_call.fetch # "ok")) =>
        /\ last_call.out = "None"
        /\ download_dir = NoFile

\* the ways of being invalid that the tests of the validation name: a required
\* field of a podcast is missing, a slug is listed twice, an address of a
\* recipient or the system address is malformed or absent, a key is missing
missing_required_field(cfg) ==
    \E i \in 1..Len(cfg) : {"name", "slug", "rss_url", "active"} \ DOMAIN cfg[i] # {}
duplicate_slug(cfg) ==
    \E i, k \in 1..Len(cfg) :
        /\ i < k
        /\ {"slug"} \subseteq DOMAIN cfg[i] \cap DOMAIN cfg[k]
        /\ cfg[i].slug = cfg[k].slug
WellFormed == {"r1", "r2", "admin@example.com"}
invalid_recipient(cfg) ==
    \E i \in 1..Len(cfg) :
        /\ "emails" \in DOMAIN cfg[i]
        /\ \E k \in 1..Len(cfg[i].emails) : cfg[i].emails[k] \notin WellFormed
invalid_system_email(env) == env.system_email \notin WellFormed
missing_api_key(env) ==
    \/ {"ASSEMBLYAI_API_KEY", "RESEND_API_KEY"} \ env.keys # {}
    \/ {"OPENAI_API_KEY", "GEMINI_API_KEY"} \cap env.keys = {}
files_invalid ==
    \/ missing_required_field(config)
    \/ duplicate_slug(config)
    \/ invalid_recipient(config)
    \/ invalid_system_email(app_env)
    \/ missing_api_key(app_env)

\* C26: a run of main that starts on invalid files (a required field of a
\* podcast missing, a slug listed twice, a malformed recipient or system
\* address, a missing key) returns 1 at once: the tables are as they were (no
\* podcast synced, no event appended, no ledger row), no collaborator was
\* called (no feed fetched, no email sent) and main is over.
C26_InvalidConfigStops ==
    [][(pc = "idle" /\ run' = run + 1 /\ files_invalid) =>
          /\ rc' = 1
          /\ pc' = "idle"
          /\ trace' = <<>>
          /\ UNCHANGED dbvars]_vars

\* a first run on invalid files has returned 1 and left the podcasts table empty
C26_Witness ==
    /\ pc = "idle"
    /\ run = 1
    /\ rc = 1
    /\ files_invalid
    /\ podcasts = <<>>
    /\ trace = <<>>

\* C27: over the runs of main and the email and process commands of
\* run_pipeline.py that follow one another, no (episode, recipient) pair is
\* among the successful sends twice: every configured or typed recipient is
\* sent the summary of an episode at most once.
C27_AtMostOnceDelivery ==
    \A i, j \in 1..Len(delivered) : delivered[i] = delivered[j] => i = j

\* a later invocation met a recipient whose send had succeeded in an earlier
\* invocation (the ledger row is older than the invocation) and skipped it
C27_Witness ==
    /\ run >= 2
    /\ \E i \in 1..Len(trace), m \in 1..mail0 :
          /\ trace[i].op = "email_already_sent"
          /\ email_log[m].recipient_email = trace[i].arg
          /\ episodes[email_log[m].episode_id].episode_guid = trace[i].key
          /\ \E k \in 1..Len(delivered) :
                delivered[k] = << email_log[m].episode_id, trace[i].arg >>

\* the step is a process command that appends an event with this status for
\* the episode
process_appends(id, status) ==
    /\ run' = run + 1
    /\ last_call'.op = "process"
    /\ \E i \in (Len(processing_events) + 1)..Len(processing_events') :
          /\ processing_events'[i].episode_id = id
          /\ processing_events'[i].status = status

\* C28: the process command of run_pipeline.py appends a completed event for
\* an episode only if every stage it ran for the episode succeeded and the
\* emailed event was appended by it: every configured recipient then has a
\* row in the ledger for the episode.
C28_CompletedOnlyAfterDelivery ==
    [][\A id \in 1..Len(episodes') :
          process_appends(id, "completed") =>
              /\ process_appends(id, "emailed")
              /\ \A i \in 1..Len(trace') :
                    trace'[i].op # "archive" => trace'[i].out \in {"ok", "skip"}
              /\ \A k \in 1..Len(config) :
                    config[k].slug = podcasts'[episodes'[id].podcast_id].slug =>
                        \A r \in 1..Len(config[k].emails) :
                            email_already_sent(email_log', id, config[k].emails[r])]_vars

\* the failed events a step appends for the episode its command names
failed_events_of_step ==
    {i \in (Len(processing_events) + 1)..Len(processing_events') :
        /\ processing_events'[i].episode_id = last_call'.id
        /\ processing_events'[i].status = "failed"}

\* C29: when the collaborator of a single-stage command of run_pipeline.py
\* (contextualize, transcribe or summarize with --episode-id) fails, the
\* command appends exactly one failed event for the episode, and the
\* failed_stage of that event is the command's stage.
C29_SingleStageSingleFailure ==
    [][\A cmd \in {"contextualize", "transcribe", "summarize"} :
          (/\ run' = run + 1
           /\ last_call'.op = cmd
           /\ \E i \in 1..Len(trace') : trace'[i].op = cmd /\ trace'[i].out # "ok") =>
              /\ Cardinality(failed_events_of_step) = 1
              /\ \A i \in failed_events_of_step :
                    field(processing_events'[i].event_data, "failed_stage") = cmd]_vars

\* C30: fetch with --download, for an episode whose log holds a downloaded
\* event and whose current status is downloaded or the status of a later
\* stage, does not call the downloader and appends no downloaded event.
C30_FetchSkipsDownloaded ==
    [][\A id \in 1..Len(episodes) :
          (/\ run' = run + 1
           /\ last_call'.op = "fetch"
           /\ last_call'.id = id
           /\ events_with(id, "downloaded") # {}
           /\ get_current_status(processing_events, id) \in
                 {"downloaded", "contextualized", "transcribed", "summarized",
                  "emailed", "completed"}) =>
              /\ \A i \in 1..Len(trace') : trace'[i].op # "download"
              /\ \A i \in (Len(processing_events) + 1)..Len(processing_events') :
                    processing_events'[i].status # "downloaded"]_vars

\* C31: whenever the process command appends a failed event for an episode,
\* the failed_stage of the event names the stage whose collaborator failed in
\* that command (the last call of the command, the one that returned nothing),
\* also for an episode that had failed before and after the audio was moved
\* to the processing directory.
C31_ProcessFailedStageAccurate ==
    [][(/\ run' = run + 1
        /\ last_call'.op = "process"
        /\ trace' # <<>>
        /\ trace'[Len(trace')].op \in
              {"download", "contextualize", "transcribe", "summarize"}
        /\ trace'[Len(trace')].out # "ok") =>
           /\ failed_events_of_step # {}
           /\ \A i \in failed_events_of_step :
                 field(processing_events'[i].event_data, "failed_stage") =
                     trace'[Len(trace')].op]_vars

\* C32: when a run of main is over, cleanup_failed_episodes has run: for
\* every episode whose current status is failed and whose log holds a
\* downloaded event with an audio_path, delete_audio_file was called for the
\* episode's audio, so that the file is gone from the audio directories.
C32_FailedAudioDeleted ==
    (pc = "idle" /\ run > 0 /\ rc \in {0, 1} /\ last_call.op = "") =>
        \A id \in Ids(episodes) :
            (/\ get_current_status(processing_events, id) = "failed"
             /\ field(get_event_data(processing_events, id, "downloaded"),
                      "audio_path") # "") =>
                \E i \in 1..Len(trace) :
                    /\ trace[i].op = "delete_audio_file"
                    /\ trace[i].key = episodes[id].episode_guid

\* the episodes whose latest event is failed
failed_now == {id \in Ids(episodes) : get_current_status(processing_events, id) = "failed"}

\* C33: get_failed_episodes(hours=None) has exactly one entry for every
\* episode whose latest event is failed, with the error_message of that
\* latest event, and no other entry: an episode whose latest event has
\* another status is not listed, whatever its earlier events.
C33_FailedEpisodesQuery ==
    LET result == get_failed_episodes(processing_events, episodes, podcasts) IN
    /\ Len(result) = Cardinality(failed_now)
    /\ \A id \in failed_now :
          \E k \in 1..Len(result) :
              /\ result[k].episode_title = episodes[id].episode_guid
              /\ result[k].error_message =
                     field(processing_events[
                               get_latest_processing_event(processing_events, id)].event_data,
                           "error_message")

\* an episode that failed and was completed afterwards is not listed, while
\* another episode, whose latest event is failed, is the only entry
C33_Witness ==
    /\ \E id \in Ids(episodes) :
          /\ events_with(id, "failed") # {}
          /\ get_current_status(processing_events, id) = "completed"
    /\ failed_now # {}
    /\ Len(get_failed_episodes(processing_events, episodes, podcasts)) = 1

\* C34: persist before event. An episode whose log has a contextualized
\* event has a non-empty context, and one whose log has a summarized event
\* has a non-empty generated_summary, in every state of runs of main that
\* may be killed anywhere, between the write of the row and the event
\* included.
C34_PersistBeforeEvent ==
    \A id \in Ids(episodes) :
        /\ events_with(id, "contextualized") # {} => episodes[id].context # ""
        /\ events_with(id, "summarized") # {} => episodes[id].generated_summary # ""

\* an episode has its contextualized event and its context, and the run was
\* killed after its summary was written and before the summarized event
C34_Witness ==
    \E id \in Ids(episodes) :
        /\ events_with(id, "contextualized") # {}
        /\ episodes[id].context # ""
        /\ episodes[id].generated_summary # ""
        /\ events_with(id, "summarized") = {}

\* the pairs (episode, recipient) for which a send returned success
delivered_pairs == {delivered[i] : i \in Ids(delivered)}

\* C35: a row of email_log implies a confirmed delivery. Every row's pair
\* (episode, recipient) is one for which send_summary_email returned
\* success, in main, process and email; a send that failed leaves no row.
C35_LedgerImpliesDelivery ==
    \A i \in Ids(email_log) :
        << email_log[i].episode_id, email_log[i].recipient_email >> \in delivered_pairs

\* a send to one recipient failed and left no row, while another recipient
\* of the same episode has its row
C35_Witness ==
    /\ last_call.op \in {"process", "email"}
    /\ \E k \in Ids(trace), id \in Ids(episodes) :
          /\ trace[k].op = "send"
          /\ trace[k].out = "fail"
          /\ trace[k].key = episodes[id].episode_guid
          /\ ~email_already_sent(email_log, id, trace[k].arg)
          /\ \E i \in Ids(email_log) : email_log[i].episode_id = id

\* the statuses of the stages, in the order main runs them
StageOrder ==
    << "downloaded", "contextualized", "transcribed", "summarized", "emailed", "completed" >>

\* a prefix of StageOrder, followed by at most one failed event
main_shaped(s) ==
    \/ IsPrefix(s, StageOrder)
    \/ /\ s # <<>>
       /\ s[Len(s)] = "failed"
       /\ IsPrefix(SubSeq(s, 1, Len(s) - 1), StageOrder)

\* C36: under main alone (runs that follow one another, any of which may be
\* killed), the event log of every episode is a prefix of downloaded,
\* contextualized, transcribed, summarized, emailed, completed followed by
\* at most one failed event.
C36_MainLogShape ==
    \A id \in Ids(episodes) : main_shaped(statuses_of(processing_events, id))

\* the longest log: all six stages and then the failed event of an archival
\* that raised, and a later run of main has left it alone
C36_Witness ==
    /\ run = MaxRuns
    /\ pc = "idle"
    /\ \E id \in Ids(episodes) :
          statuses_of(processing_events, id) = StageOrder \o << "failed" >>

\* the emailed events of an episode in a table of events
emailed_events(tbl, id) ==
    {i \in events_of(tbl, id) : tbl[i].status = "emailed"}

\* the recipients a recipient loop went through for a guid: each pass is a
\* call of email_already_sent that skips, or a send
looped_recipients(calls, guid) ==
    {calls[k].arg : k \in {j \in Ids(calls) :
                              /\ calls[j].op \in {"send", "email_already_sent"}
                              /\ calls[j].key = guid}}

\* the recipients podcasts.yaml has for an episode's podcast
configured_recipients(id) ==
    LET k == podcast_lookup(podcasts[episodes[id].podcast_id].slug) IN
    IF k = 0 THEN {} ELSE {config[k].emails[i] : i \in 1..Len(config[k].emails)}

\* C37: emailed implies full delivery. In a step of main, process or email
\* that appends an emailed event for an episode, every recipient the loop
\* went through, and for main and process every configured recipient, has
\* its row in email_log.
C37_EmailedImpliesFullDelivery ==
    [][\A id \in Ids(episodes) :
          emailed_events(processing_events', id) # emailed_events(processing_events, id) =>
             /\ \A recipient \in looped_recipients(trace', episodes[id].episode_guid) :
                   email_already_sent(email_log', id, recipient)
             /\ (pc = "email" \/ last_call'.op = "process") =>
                   \A recipient \in configured_recipients(id) :
                       email_already_sent(email_log', id, recipient)]_vars

\* an emailed event was appended by a command whose loop skipped a recipient
\* that an earlier invocation had delivered to, and sent to another
C37_Witness ==
    /\ last_call.op \in {"process", "email"}
    /\ \E id \in Ids(episodes) :
          /\ processing_events # <<>>
          /\ processing_events[Len(processing_events)].episode_id = id
          /\ Len(processing_events) > ev0
          /\ \E i \in emailed_events(processing_events, id) : i > ev0
          /\ \E k \in Ids(trace) : trace[k].op = "email_already_sent"
          /\ \E k \in Ids(trace) : trace[k].op = "send" /\ trace[k].out = "ok"
          /\ \A recipient \in looped_recipients(trace, episodes[id].episode_guid) :
                email_already_sent(email_log, id, recipient)

\* the place of a stage status in the stage order
stage_rank(status) == CHOOSE k \in 1..Len(StageOrder) : StageOrder[k] = status

\* the statuses of an episode's events that are not failed, as appended
non_failed(id) ==
    SelectSeq(statuses_of(processing_events, id), LAMBDA status : status # "failed")

\* C38: status never regresses. Over the commands of run_pipeline.py, the
\* successive non-failed events of an episode never move backwards in the
\* order downloaded < contextualized < transcribed < summarized < emailed <
\* completed.
C38_StatusNeverRegresses ==
    \A id \in Ids(episodes) :
        \A k \in 1..(Len(non_failed(id)) - 1) :
            stage_rank(non_failed(id)[k]) <= stage_rank(non_failed(id)[k + 1])

\* the episodes for which the current run of main started the stages: the
\* first stage, the download, was invoked for their guid
started_in_run ==
    {get_episode_by_guid(episodes, trace[k].key) :
        k \in {j \in Ids(trace) : trace[j].op = "download"}}

\* C39: a run of main that was not killed, in which every collaborator call
\* returned (a result, None or an exception) and the store accepted every
\* statement, leaves every episode whose stages it started with the current
\* status completed or failed.
C39_RunEndsTerminal ==
    (/\ pc = "idle"
     /\ run > 0
     /\ rc \in {0, 1}
     /\ \A k \in Ids(trace) : ~escaped_at(k)) =>
        \A id \in started_in_run :
            get_current_status(processing_events, id) \in {"completed", "failed"}

\* a run has ended in which the stages of two episodes were started: one
\* failed in a stage, the other went through to completed
C39_Witness ==
    /\ pc = "idle"
    /\ run > 0
    /\ rc = 1
    /\ \A k \in Ids(trace) : ~escaped_at(k)
    /\ \E id \in started_in_run : get_current_status(processing_events, id) = "failed"
    /\ \E id \in started_in_run : get_current_status(processing_events, id) = "completed"

====
